---- MODULE Spec2Model ----
(***************************************************************************)
(* A model of the bidirectional synchronisation core of ulysses-link:      *)
(* the linker (sync_file, deletion propagation, prune_stale), the watcher  *)
(* pipeline (pending maps, drain, flush under the Manifest mutex) and the  *)
(* engine's periodic full scan, for one repo mirrored into one output_dir. *)
(***************************************************************************)
EXTENDS Integers, Sequences, FiniteSets, TLC

\* ---------------------------------------------------------------- bounds
\* Number of user file operations (edits, deletions, links) in a behaviour.
MaxEdits == 2
\* Number of distinct wall-clock seconds (conflict-file timestamps).
MaxStamp == 1

\* ------------------------------------------------------------ the universe
\* A Manifest key is <repo_name>/<rel_path>, written as the sequence of its
\* pieces so that starts_with can be computed.
RepoName == <<"repo">>
KeyOf(repo, rel) == repo \o <<"/">> \o rel
StartsWith(key, prefix) ==
    Len(prefix) <= Len(key) /\ SubSeq(key, 1, Len(prefix)) = prefix

\* The in-scope documentation files of the repo, by their Manifest keys.
Keys == {KeyOf(RepoName, <<"a", ".md">>)}
RepoPath == "/home/u/repo"

\* A file's text is two regions of lines separated by unchanged context
\* lines; a region's value names the text of that region.
Contents == {<<a, b>> : a \in 0..2, b \in 0..1}
InitialContent == <<0, 0>>
Stamps == 1..MaxStamp

Absent == [kind |-> "absent", text |-> <<>>]
Symlink == [kind |-> "symlink", text |-> <<>>]
Regular(c) == [kind |-> "file", text |-> c]

\* hash_file / hash_bytes: hex SHA-256 of the bytes (collision-free here).
Hash(c) == [sha256 |-> c]

SourcePath(k) == [root |-> RepoPath, rel |-> k]
\* A faulty insert, recording no content hash.
ManifestEntryUnhashed(source, hash) == [present |-> TRUE, source |-> source, hash |-> [sha256 |-> <<>>]]

NoEntry == [present |-> FALSE, source |-> [root |-> "", rel |-> <<>>], hash |-> Hash(<<>>)]
ManifestEntry(source, hash) == [present |-> TRUE, source |-> source, hash |-> hash]

VARIABLES
    src,          \* source tree: repo-relative path -> file
    mir,          \* mirror tree: key -> file (regular, symlink or absent)
    ext,          \* what a symlink placed at mirror key k points to
    base,         \* base cache <output_dir>/.ulysses-link.d/<key>
    conf,         \* conflict files: side -> key -> timestamp -> file
    clock,        \* chrono::Local::now(), in seconds
    manifest,     \* the shared Arc<Mutex<Manifest>> of the output_dir
    disk,         \* the persisted Manifest file <output_dir>/.ulysses-link
    lock,         \* holder of the Manifest mutex
    srcPending,   \* RepoWatcher's pending map
    srcBatch,     \* the batch flush_source_events drained and is applying
    srcSave,      \* creates > 0 || deletes > 0 in the running source flush
    mirPending,   \* MirrorWatcher's pending map
    mirBatch,     \* the batch flush_mirror_events drained and is applying
    mirSave,      \* syncs > 0 || deletes > 0 in the running mirror flush
    scanPc,       \* engine's periodic rescan: idle, walk, writeback
    scanManifest, \* the engine's unlocked clone of the Manifest
    scanTodo,     \* paths the scan's walk has not visited yet
    edits,        \* user operations done
    userMirror,   \* history: keys whose mirror file holds bytes the user wrote
    srcStop,      \* RepoWatcher.stop
    srcFinal,     \* the coalescing thread has seen stop and made its final flush call
    srcTimer,     \* last_event_time: <<>>, or <<the wakes elapsed since it was set>>
    cancelPc,     \* RepoWatcher::cancel: none, joining, returned
    wakeLog,      \* history: `edits` at each of the last Debounce wakes
    srcBurst,     \* history: events enqueued for the batch drained last
    srcDrainedAt, \* history: `edits` at the last drain
    result,       \* the sync command's ScanResult (the engine only logs its scans')
    scanRepeat,   \* history: the sync command runs right after another run of it
    moved,        \* history: <<a, b>> once the user renamed source file a to b
    config,       \* MirrorEngine.config: the active, validated Config
    configFile,   \* what load_config reads from the config file now
    watchers,     \* MirrorEngine.watchers: repo name -> RepoWatcher
    mirror_watchers, \* MirrorEngine.mirror_watchers: output_dir -> MirrorWatcher
    manifests,    \* MirrorEngine.manifests: output_dir -> Arc<Mutex<Manifest>>
    outputs,      \* the output directories on disk: mirror files, base cache, Manifest file
    changed,      \* ConfigWatcher.changed
    notified,     \* config-file events the OS has not delivered to the callback yet
    running,      \* MirrorEngine.running
    enginePc,     \* the thread that called start(): loop, stop, returned
    mirStop,      \* MirrorWatcher.stop
    mirFinal,     \* the MirrorWatcher's thread has seen stop and made its final flush call
    raw_repos,    \* resolve_repo_names: the [[repos]] tables of the config file
    resolved,     \* resolve_repo_names: `seen` and `result` as the loop goes
    matcherIn,    \* should_mirror: the relative path and the compiled patterns
    matcherOut,   \* should_mirror: what it returned, what the scan and the flush did
    repoRoot,     \* what repo_config.path is on disk: a directory, or missing
    mirDirs,      \* the directories of the mirror tree, <output_dir>/<repo> and below
    flushedKeys,  \* history: keys whose Manifest entry the last source flush changed
    mutex,        \* holder of each pending-events mutex and of each Manifest mutex
    pc,           \* where each thread is in its code, lock by lock
    reloading,    \* reload_config between its global move and its repo diff
    repoPending,  \* the repos whose RepoWatcher holds a pending source event
    last          \* the linker call (or user operation) of the last step

\* The keys of the file trees at hand.
Universe == DOMAIN src

vars == <<src, mir, ext, base, conf, clock, manifest, disk, lock,
          srcPending, srcBatch, srcSave, mirPending, mirBatch, mirSave,
          scanPc, scanManifest, scanTodo, edits, userMirror,
          srcStop, srcFinal, srcTimer, cancelPc, wakeLog, srcBurst, srcDrainedAt,
          result, scanRepeat, moved,
          config, configFile, watchers, mirror_watchers, manifests, outputs, changed, notified,
          running, enginePc, mirStop, mirFinal, raw_repos, resolved, matcherIn, matcherOut, repoRoot, mirDirs, flushedKeys, mutex, pc, reloading, repoPending, last>>

EmptyManifest == [k \in Universe |-> NoEntry]
NoEvents == [k \in Universe |-> "none"]
NoConflicts == [side \in {"source", "mirror"} |-> [k \in Universe |-> [t \in Stamps |-> Absent]]]

threadVars == <<srcStop, srcFinal, srcTimer, cancelPc, wakeLog, srcBurst, srcDrainedAt>>
fsVars == <<src, mir, ext, base, conf, clock, userMirror>>
srcWatcherVars == <<srcPending, srcBatch, srcSave>>
mirWatcherVars == <<mirPending, mirBatch, mirSave>>
scanVars == <<scanPc, scanManifest, scanTodo>>
cliVars == <<result, scanRepeat>>
shutdownVars == <<running, enginePc, mirStop, mirFinal>>
inputVars == <<raw_repos, resolved, matcherIn, matcherOut>>
lockVars == <<mutex, pc>>
rehomeVars == <<reloading, repoPending>>
siteVars == <<repoRoot, mirDirs, flushedKeys, lockVars, rehomeVars>>
engineVars == <<config, configFile, watchers, mirror_watchers, manifests, outputs, changed, notified,
                shutdownVars, inputVars, siteVars>>

\* ------------------------------------------------------------- matcher
\* Every path at hand matches an include glob and no exclude pattern.
ShouldMirror(k) == k \in Universe /\ k[Len(k)] = ".md"

\* ------------------------------------------------------------- helpers
FileAt(path) == IF path.root = RepoPath /\ path.rel \in Universe THEN src[path.rel] ELSE Absent

\* HashMap::insert of the classified event; "none" enqueues nothing.
EnqueueKeepFirst(pending, k, ev) ==
    IF ev = "none" \/ pending[k] # "none" THEN pending ELSE [pending EXCEPT ![k] = ev]
Enqueue(pending, k, ev) == IF ev = "none" THEN pending ELSE [pending EXCEPT ![k] = ev]

\* A faulty merge: the source's text, whatever the mirror changed.
MergeTakeSource(b, s, m) == [ok |-> TRUE, text |-> s]

\* diffy::merge(base, source, mirror): a region changed on one side only
\* takes that side's text; changed identically on both, that text; changed
\* differently on both, the merge fails.
Merge(b, s, m) ==
    IF \E i \in 1..Len(b) : s[i] # b[i] /\ m[i] # b[i] /\ s[i] # m[i]
    THEN [ok |-> FALSE, text |-> <<>>]
    ELSE [ok |-> TRUE, text |-> [i \in 1..Len(b) |-> IF s[i] = b[i] THEN m[i] ELSE s[i]]]

\* ------------------------------------------------------------- linker
\* The result of a linker call that changes nothing.
Unchanged(man) ==
    [src |-> src, mir |-> mir, ext |-> ext, base |-> base, conf |-> conf, man |-> man,
     sev |-> "none", mev |-> "none", out |-> "Skipped", branch |-> "source_missing"]

\* Faulty base-cache and conflict-file writes: nothing is written or removed.
WriteBaseSkipped(b, k, c) == b
RemoveBaseSkipped(b, k) == b
SaveConflictDropped(cf, side, k, t, c) == cf

\* write_base(output_dir, rel_path, content)
WriteBase(b, k, c) == [b EXCEPT ![k] = Regular(c)]

\* remove_base(output_dir, rel_path)
RemoveBase(b, k) == [b EXCEPT ![k] = Absent]

\* save_conflict(path, content): fs::write to <name>.conflict_<timestamp>
SaveConflict(cf, side, k, t, c) == [cf EXCEPT ![side][k][t] = Regular(c)]

\* resolve_conflict: newer is source_mtime >= mirror_mtime.
ResolveConflict(source, k, man, newer, t) ==
    LET s == FileAt(source)
        m == mir[k]
    IN  IF newer
        THEN [Unchanged(man) EXCEPT
                !.conf = SaveConflict(conf, "mirror", k, t, m.text),
                !.mir = [mir EXCEPT ![k] = Regular(s.text)],
                !.base = WriteBase(base, k, s.text),
                !.man = [man EXCEPT ![k] = ManifestEntry(source, Hash(s.text))],
                !.mev = "Modified",
                !.out = "Conflict",
                !.branch = "conflict_keep_source"]
        ELSE [Unchanged(man) EXCEPT
                !.conf = SaveConflict(conf, "source", k, t, s.text),
                !.src = [src EXCEPT ![source.rel] = Regular(m.text)],
                !.base = WriteBase(base, k, m.text),
                !.man = [man EXCEPT ![k] = ManifestEntry(source, Hash(m.text))],
                !.sev = "Modified",
                !.out = "Conflict",
                !.branch = "conflict_keep_mirror"]

\* A sync_file that copies the source over the mirror without comparing
\* the hashes first.
SyncFileUncompared(source, k, man, newer, t) ==
    LET s == FileAt(source)
    IN  IF s.kind = "file"
        THEN [Unchanged(man) EXCEPT
                !.mir = [mir EXCEPT ![k] = Regular(s.text)],
                !.base = WriteBase(base, k, s.text),
                !.man = [man EXCEPT ![k] = ManifestEntry(source, Hash(s.text))],
                !.mev = "Modified",
                !.out = "Copied",
                !.branch = "source_to_mirror"]
        ELSE Unchanged(man)

\* sync_file(source, mirror, manifest, rel_path, output_dir)
SyncFile(source, k, man, newer, t) ==
    LET s == FileAt(source)
        m == mir[k]
        source_exists == s.kind = "file"
        mirror_exists == m.kind = "file"    \* mirror.exists() && !mirror.is_symlink()
        source_hash == Hash(s.text)
        mirror_hash == Hash(m.text)
        manifest_hash == man[k].hash
    IN  IF source_exists /\ ~mirror_exists THEN
            \* fs::copy(source, mirror) opens the destination path for writing:
            \* through a symlink it writes the file the link points to.
            [Unchanged(man) EXCEPT
                !.mir = IF m.kind = "symlink" THEN mir ELSE [mir EXCEPT ![k] = Regular(s.text)],
                !.ext = IF m.kind = "symlink" THEN [ext EXCEPT ![k] = Regular(s.text)] ELSE ext,
                !.base = WriteBase(base, k, s.text),
                !.man = [man EXCEPT ![k] = ManifestEntry(source, source_hash)],
                !.mev = IF m.kind = "symlink" THEN "none" ELSE "Modified",
                !.out = "Copied",
                !.branch = "new_file"]
        ELSE IF source_exists /\ mirror_exists /\ ~man[k].present THEN
            IF source_hash = mirror_hash
            THEN [Unchanged(man) EXCEPT
                    !.base = WriteBase(base, k, s.text),
                    !.man = [man EXCEPT ![k] = ManifestEntry(source, source_hash)],
                    !.out = "Claimed",
                    !.branch = "claim"]
            ELSE [Unchanged(man) EXCEPT !.out = "Skipped", !.branch = "foreign"]
        ELSE IF source_exists /\ mirror_exists THEN
            IF source_hash = mirror_hash THEN
                IF manifest_hash # source_hash
                THEN [Unchanged(man) EXCEPT
                        !.man = [man EXCEPT ![k] = ManifestEntry(source, source_hash)],
                        !.base = WriteBase(base, k, s.text),
                        !.out = "AlreadyInSync",
                        !.branch = "refresh"]
                ELSE [Unchanged(man) EXCEPT !.out = "AlreadyInSync", !.branch = "in_sync"]
            ELSE IF source_hash = manifest_hash THEN
                [Unchanged(man) EXCEPT
                    !.src = [src EXCEPT ![source.rel] = Regular(m.text)],
                    !.base = WriteBase(base, k, m.text),
                    !.man = [man EXCEPT ![k] = ManifestEntry(source, mirror_hash)],
                    !.sev = "Modified",
                    !.out = "Copied",
                    !.branch = "mirror_to_source"]
            ELSE IF mirror_hash = manifest_hash THEN
                [Unchanged(man) EXCEPT
                    !.mir = [mir EXCEPT ![k] = Regular(s.text)],
                    !.base = WriteBase(base, k, s.text),
                    !.man = [man EXCEPT ![k] = ManifestEntry(source, source_hash)],
                    !.mev = "Modified",
                    !.out = "Copied",
                    !.branch = "source_to_mirror"]
            ELSE IF base[k].kind = "file" /\ Merge(base[k].text, s.text, m.text).ok THEN
                LET merged == Merge(base[k].text, s.text, m.text).text
                IN  [Unchanged(man) EXCEPT
                        !.src = [src EXCEPT ![source.rel] = Regular(merged)],
                        !.mir = [mir EXCEPT ![k] = Regular(merged)],
                        !.base = WriteBase(base, k, merged),
                        !.man = [man EXCEPT ![k] = ManifestEntry(source, Hash(merged))],
                        !.sev = "Modified",
                        !.mev = "Modified",
                        !.out = "Merged",
                        !.branch = "merged"]
            ELSE ResolveConflict(source, k, man, newer, t)
        ELSE Unchanged(man)

\* propagate_delete(rel_path, manifest, output_dir)
PropagateDelete(k, man) ==
    IF ~man[k].present
    THEN [Unchanged(man) EXCEPT !.out = "false", !.branch = "not_in_manifest"]
    ELSE [Unchanged(man) EXCEPT
            !.mir = IF mir[k].kind = "file" THEN [mir EXCEPT ![k] = Absent] ELSE mir,
            !.base = RemoveBase(base, k),
            !.man = [man EXCEPT ![k] = NoEntry],
            !.mev = IF mir[k].kind = "file" THEN "Deleted" ELSE "none",
            !.out = "true",
            !.branch = "delete_mirror"]

\* propagate_mirror_delete(rel_path, manifest, output_dir)
PropagateMirrorDelete(k, man) ==
    IF ~man[k].present
    THEN [Unchanged(man) EXCEPT !.out = "false", !.branch = "not_in_manifest"]
    ELSE LET entry == man[k]
             there == FileAt(entry.source).kind = "file"
         IN  [Unchanged(man) EXCEPT
                !.src = IF there THEN [src EXCEPT ![entry.source.rel] = Absent] ELSE src,
                !.base = RemoveBase(base, k),
                !.man = [man EXCEPT ![k] = NoEntry],
                !.sev = IF there THEN "Deleted" ELSE "none",
                !.out = "true",
                !.branch = "delete_source"]

\* Manifest::entries_for_repo: the keys that start with <repo_name>/
EntriesForRepo(man, repo) ==
    {k \in DOMAIN man : man[k].present /\ StartsWith(k, repo \o <<"/">>)}

\* A prune that takes every output_dir entry for this repo's.
StaleAnyRepo(man) == {k \in DOMAIN man : man[k].present /\ FileAt(man[k].source).kind # "file"}

\* prune_stale(repo_name, output_dir, manifest): entries whose source is gone.
Stale(man) == {k \in EntriesForRepo(man, RepoName) : FileAt(man[k].source).kind # "file"}

PruneStale(man) ==
    LET stale == Stale(man)
    IN  [mir |-> [k \in Universe |-> IF k \in stale /\ mir[k].kind = "file" THEN Absent ELSE mir[k]],
         base |-> [k \in Universe |-> IF k \in stale THEN Absent ELSE base[k]],
         man |-> [k \in Universe |-> IF k \in stale THEN NoEntry ELSE man[k]],
         removed |-> {k \in stale : mir[k].kind = "file"},
         pruned |-> Cardinality(stale)]

\* The path of a key inside its repo.
RelOf(repo, k) == SubSeq(k, Len(repo) + 2, Len(k))

\* remove_dir_mirrors(repo_name, dir_rel_path, output_dir, manifest): the
\* repo's entries whose key starts with format!("{repo_name}/{dir_rel_path}")
\* lose their regular mirror file, base and entry; Ok(mirror files removed).
RemoveDirMirrors(repo, dirRel, man) ==
    LET prefix == KeyOf(repo, dirRel)
        entries == {k \in EntriesForRepo(man, repo) : StartsWith(k, prefix)}
        removed == {k \in entries : mir[k].kind = "file"}
    IN  [Unchanged(man) EXCEPT
            !.mir = [k \in Universe |-> IF k \in removed THEN Absent ELSE mir[k]],
            !.base = [k \in Universe |-> IF k \in entries THEN Absent ELSE base[k]],
            !.man = [k \in Universe |-> IF k \in entries THEN NoEntry ELSE man[k]],
            !.out = IF removed # {} THEN "true" ELSE "false",
            !.branch = "remove_dir"]

\* The mirror files remove_dir_mirrors unlinks (Remove events in the mirror tree).
DirMirrorsRemoved(repo, dirRel, man) ==
    {k \in EntriesForRepo(man, repo) : StartsWith(k, KeyOf(repo, dirRel)) /\ mir[k].kind = "file"}

\* ScanResult, and scan_repo's count of one sync_file outcome.
ZeroResult ==
    [created |-> 0, already_existed |-> 0, skipped |-> 0, pruned |-> 0,
     merged |-> 0, conflicts |-> 0, errors |-> 0]

Counted(res, out) ==
    CASE out = "Copied" -> [res EXCEPT !.created = @ + 1]
      [] out \in {"AlreadyInSync", "Claimed"} -> [res EXCEPT !.already_existed = @ + 1]
      [] out = "Skipped" -> [res EXCEPT !.skipped = @ + 1]
      [] out = "Merged" -> [res EXCEPT !.merged = @ + 1]
      [] out = "Conflict" -> [res EXCEPT !.conflicts = @ + 1]
      [] OTHER -> res

\* ------------------------------------------------------------- state
Step(actor, op, k, out, branch) ==
    [actor |-> actor, op |-> op, key |-> k, out |-> out, branch |-> branch]

\* The engine's bookkeeping of repos and output directories, where one repo
\* and one output_dir are looked at file by file.
EngineUnused ==
    /\ config = <<>> /\ configFile = <<>>
    /\ watchers = <<>> /\ mirror_watchers = <<>> /\ manifests = <<>> /\ outputs = <<>>
    /\ changed = FALSE /\ notified = FALSE

\* No config file is being validated and no path matched on its own.
InputsUnused == raw_repos = <<>> /\ resolved = <<>> /\ matcherIn = <<>> /\ matcherOut = <<>>

\* The mutexes: one per watcher's pending map, one per output_dir's
\* Manifest; and the threads that take them: the two notify callbacks, the
\* two coalescing threads and the engine's thread.
PendingMutexes == {"srcPending", "mirPending"}
ManifestMutexes == {"manifest1", "manifest2"}
Mutexes == PendingMutexes \cup ManifestMutexes
Threads == {"srcCallback", "mirCallback", "src", "mir", "engine"}

\* A thread at the top of its loop. For a coalescing thread: its watcher's
\* stop flag, whether its pending map and the batch it took hold events,
\* whether it is in its final flush, and the Manifest it was created with.
AtLoop ==
    [at |-> "loop", stop |-> FALSE, pending |-> FALSE, batch |-> FALSE, final |-> FALSE,
     manifest |-> "manifest1"]

\* The repo's source root is the directory the config file was validated
\* with; the mirror tree is looked at file by file, not by directory.
\* reload_config is not running; no repo watcher has an event pending.
NotReloading == [at |-> "loop", old_dir |-> "", old_manifest |-> {}, new_config |-> <<>>]

SiteUsual ==
    /\ repoRoot = "dir" /\ mirDirs = {} /\ flushedKeys = {}
    /\ mutex = [m \in Mutexes |-> "none"]
    /\ pc = [t \in Threads |-> AtLoop]
    /\ reloading = NotReloading /\ repoPending = {}

\* start() has entered main_loop: running is set, no watcher is told to stop.
EngineStarts ==
    running = TRUE /\ enginePc = "loop" /\ mirStop = FALSE /\ mirFinal = FALSE /\ SiteUsual
EngineRunning == EngineStarts /\ InputsUnused

\* The engine has started on a repo whose files are `owned`: start() loaded
\* the Manifest, ran the initial full scan into an empty mirror, saved, and
\* started the RepoWatcher and the MirrorWatcher.
CoreStarted(keys, owned) ==
    /\ src = [k \in keys |-> IF k \in owned THEN Regular(InitialContent) ELSE Absent]
    /\ mir = [k \in keys |-> IF k \in owned THEN Regular(InitialContent) ELSE Absent]
    /\ base = [k \in keys |-> IF k \in owned THEN Regular(InitialContent) ELSE Absent]
    /\ manifest = [k \in keys |-> IF k \in owned
                      THEN ManifestEntry(SourcePath(k), Hash(InitialContent)) ELSE NoEntry]
    /\ disk = [k \in keys |-> IF k \in owned
                      THEN ManifestEntry(SourcePath(k), Hash(InitialContent)) ELSE NoEntry]
    /\ ext = [k \in keys |-> Absent]
    /\ conf = NoConflicts
    /\ clock = 1
    /\ lock = "none"
    /\ srcPending = NoEvents /\ srcBatch = NoEvents /\ srcSave = FALSE
    /\ mirPending = NoEvents /\ mirBatch = NoEvents /\ mirSave = FALSE
    /\ scanPc = "idle" /\ scanManifest = EmptyManifest /\ scanTodo = {}
    /\ edits = 0
    /\ userMirror = {}
    /\ srcStop = FALSE /\ srcFinal = FALSE /\ srcTimer = <<>> /\ cancelPc = "none"
    /\ wakeLog = <<>> /\ srcBurst = 0 /\ srcDrainedAt = 0
    /\ result = ZeroResult /\ scanRepeat = FALSE
    /\ moved = <<>>
    /\ last = Step("engine", "start", <<>>, "none", "none")

Started(keys, owned) == CoreStarted(keys, owned) /\ EngineUnused /\ EngineRunning

Init == \E owned \in SUBSET Keys : Started(Keys, owned)

\* The user's mirror files a step of the core has left as they were.
StillUserMirror(newMir) == {k \in userMirror : newMir[k] = mir[k]}

\* ------------------------------------------------------------- the user
\* What one user write makes of a file: an edit changes one region of an
\* existing file; a new file starts with one of two texts.
UserTexts(f) ==
    IF f.kind = "file"
    THEN {c \in Contents : Cardinality({i \in 1..Len(c) : c[i] # f.text[i]}) = 1}
    ELSE {InitialContent, <<1, 0>>}

\* The user writes a source file; the RepoWatcher's callback classifies the
\* OS event (handle_raw_source_event) and enqueues it.
UserWriteSource(k, c) ==
    /\ edits < MaxEdits
    /\ c \in UserTexts(src[k])
    /\ src' = [src EXCEPT ![k] = Regular(c)]
    /\ srcPending' = Enqueue(srcPending, k, IF src[k].kind = "file" THEN "Modified" ELSE "Created")
    /\ edits' = edits + 1
    /\ last' = Step("user", "edit", k, "none", "none")
    /\ UNCHANGED <<mir, ext, base, conf, clock, manifest, disk, lock, srcBatch, srcSave,
                   mirWatcherVars, scanVars, userMirror, threadVars, cliVars, moved, engineVars>>

UserDeleteSource(k) ==
    /\ edits < MaxEdits
    /\ src[k].kind = "file"
    /\ src' = [src EXCEPT ![k] = Absent]
    /\ srcPending' = Enqueue(srcPending, k, "Deleted")
    /\ edits' = edits + 1
    /\ last' = Step("user", "edit", k, "none", "none")
    /\ UNCHANGED <<mir, ext, base, conf, clock, manifest, disk, lock, srcBatch, srcSave,
                   mirWatcherVars, scanVars, userMirror, threadVars, cliVars, moved, engineVars>>

\* The user writes a regular file in the mirror tree; handle_raw_mirror_event
\* enqueues Modified for the data write (a bare create is ignored).
UserWriteMirror(k, c) ==
    /\ edits < MaxEdits
    /\ mir[k].kind # "symlink"
    /\ c \in UserTexts(mir[k])
    /\ mir' = [mir EXCEPT ![k] = Regular(c)]
    /\ userMirror' = userMirror \cup {k}
    /\ mirPending' = Enqueue(mirPending, k, "Modified")
    /\ edits' = edits + 1
    /\ last' = Step("user", "edit", k, "none", "none")
    /\ UNCHANGED <<src, ext, base, conf, clock, manifest, disk, lock, mirBatch, mirSave,
                   srcWatcherVars, scanVars, threadVars, cliVars, moved, engineVars>>

UserDeleteMirror(k) ==
    /\ edits < MaxEdits
    /\ mir[k].kind # "absent"
    /\ mir' = [mir EXCEPT ![k] = Absent]
    /\ userMirror' = userMirror \ {k}
    /\ mirPending' = Enqueue(mirPending, k, "Deleted")
    /\ edits' = edits + 1
    /\ last' = Step("user", "edit", k, "none", "none")
    /\ UNCHANGED <<src, ext, base, conf, clock, manifest, disk, lock, mirBatch, mirSave,
                   srcWatcherVars, scanVars, threadVars, cliVars, moved, engineVars>>

\* The user places a symlink at a mirror path (ln -sf): a regular file that
\* was there is unlinked first (Remove event), the link's creation is a
\* Create event, which handle_raw_mirror_event ignores.
UserLinkMirror(k, target) ==
    /\ edits < MaxEdits
    /\ mir[k].kind # "symlink"
    /\ mir' = [mir EXCEPT ![k] = Symlink]
    /\ userMirror' = userMirror \ {k}
    /\ ext' = [ext EXCEPT ![k] = target]
    /\ mirPending' = Enqueue(mirPending, k, IF mir[k].kind = "file" THEN "Deleted" ELSE "none")
    /\ edits' = edits + 1
    /\ last' = Step("user", "edit", k, "none", "none")
    /\ UNCHANGED <<src, base, conf, clock, manifest, disk, lock, mirBatch, mirSave,
                   srcWatcherVars, scanVars, threadVars, cliVars, moved, engineVars>>

\* ----------------------------------------------------------- the watchers
\* A watcher's coalescing thread is between flushes.
SrcIdle == srcBatch = NoEvents /\ lock # "src"
MirIdle == mirBatch = NoEvents /\ lock # "mir"

\* ------------------------------------------------------------- RepoWatcher
\* flush_source_events, the drain: std::mem::take under the pending mutex.
SrcDrain ==
    /\ SrcIdle
    /\ srcPending # NoEvents
    /\ srcBatch' = srcPending
    /\ srcPending' = NoEvents
    /\ last' = Step("src", "drain", <<>>, "none", "none")
    /\ UNCHANGED <<fsVars, manifest, disk, lock, srcSave, mirWatcherVars, scanVars, edits, threadVars, cliVars, moved, engineVars>>

\* flush_source_events, one event of the batch, under the Manifest mutex
\* (taken with the first event, held to the end of the batch). No action of
\* the model creates a directory, so the DirCreated arm (scan_new_dir) is
\* never entered.
SrcApply(k) ==
    /\ srcBatch[k] # "none"
    /\ lock \in {"none", "src"}
    /\ lock' = "src"
    /\ srcBatch' = [srcBatch EXCEPT ![k] = "none"]
    /\ \E newer \in BOOLEAN, t \in clock..MaxStamp :
        LET dir == srcBatch[k] = "DirDeleted"
            r == IF srcBatch[k] = "Deleted" THEN PropagateDelete(k, manifest)
                 ELSE IF dir THEN RemoveDirMirrors(RepoName, RelOf(RepoName, k), manifest)
                 ELSE IF ShouldMirror(k) THEN SyncFile(SourcePath(k), k, manifest, newer, t)
                 ELSE Unchanged(manifest)
            unlinked == IF dir THEN DirMirrorsRemoved(RepoName, RelOf(RepoName, k), manifest) ELSE {}
            op == IF srcBatch[k] = "Deleted" THEN "propagate_delete"
                  ELSE IF dir THEN "remove_dir_mirrors" ELSE "sync_file"
        IN  /\ (r.out = "Conflict" \/ (newer /\ t = clock))
            /\ src' = r.src /\ mir' = r.mir /\ ext' = r.ext /\ base' = r.base /\ conf' = r.conf
            /\ userMirror' = StillUserMirror(r.mir)
            /\ clock' = IF r.out = "Conflict" THEN t ELSE clock
            /\ manifest' = r.man
            /\ srcSave' = (srcSave \/ r.out \in {"true", "Copied", "Merged"})
            /\ srcPending' = Enqueue(srcPending, k, r.sev)
            /\ mirPending' = [j \in Universe |-> IF j \in unlinked THEN "Deleted"
                                                 ELSE Enqueue(mirPending, k, r.mev)[j]]
            /\ last' = Step("src", op, k, r.out, r.branch)
    /\ UNCHANGED <<disk, mirBatch, mirSave, scanVars, edits, threadVars, cliVars, moved, engineVars>>

\* flush_source_events, the end of the batch: save if creates or deletes.
SrcFlushEnd ==
    /\ lock = "src" /\ srcBatch = NoEvents
    /\ disk' = IF srcSave THEN manifest ELSE disk
    /\ srcSave' = FALSE
    /\ lock' = "none"
    /\ last' = Step("src", "flush_end", <<>>, "none", "none")
    /\ UNCHANGED <<fsVars, manifest, srcPending, srcBatch, mirWatcherVars, scanVars, edits, threadVars, cliVars, moved, engineVars>>

\* ------------------------------------------------------------- MirrorWatcher

MirDrain ==
    /\ MirIdle
    /\ mirPending # NoEvents
    /\ mirBatch' = mirPending
    /\ mirPending' = NoEvents
    /\ last' = Step("mir", "drain", <<>>, "none", "none")
    /\ UNCHANGED <<fsVars, manifest, disk, lock, mirSave, srcWatcherVars, scanVars, edits, threadVars, cliVars, moved, engineVars>>

\* flush_mirror_events, one event of the batch, under the Manifest mutex.
MirApply(k) ==
    /\ mirBatch[k] # "none"
    /\ lock \in {"none", "mir"}
    /\ lock' = "mir"
    /\ mirBatch' = [mirBatch EXCEPT ![k] = "none"]
    /\ \E newer \in BOOLEAN, t \in clock..MaxStamp :
        LET r == IF mirBatch[k] = "Deleted" THEN PropagateMirrorDelete(k, manifest)
                 ELSE IF mirBatch[k] = "Modified" /\ manifest[k].present
                      THEN SyncFile(manifest[k].source, k, manifest, newer, t)
                 ELSE [Unchanged(manifest) EXCEPT !.out = "none", !.branch = "not_in_manifest"]
            op == IF mirBatch[k] = "Deleted" THEN "propagate_mirror_delete"
                  ELSE IF manifest[k].present THEN "sync_file" ELSE "ignore"
        IN  /\ (r.out = "Conflict" \/ (newer /\ t = clock))
            /\ src' = r.src /\ mir' = r.mir /\ ext' = r.ext /\ base' = r.base /\ conf' = r.conf
            /\ userMirror' = StillUserMirror(r.mir)
            /\ clock' = IF r.out = "Conflict" THEN t ELSE clock
            /\ manifest' = r.man
            /\ mirSave' = (mirSave \/ r.out \in {"true", "Copied", "Merged"})
            /\ srcPending' = Enqueue(srcPending, k, r.sev)
            /\ mirPending' = Enqueue(mirPending, k, r.mev)
            /\ last' = Step("mir", op, k, r.out, r.branch)
    /\ UNCHANGED <<disk, srcBatch, srcSave, scanVars, edits, threadVars, cliVars, moved, engineVars>>

MirFlushEnd ==
    /\ lock = "mir" /\ mirBatch = NoEvents
    /\ disk' = IF mirSave THEN manifest ELSE disk
    /\ mirSave' = FALSE
    /\ lock' = "none"
    /\ last' = Step("mir", "flush_end", <<>>, "none", "none")
    /\ UNCHANGED <<fsVars, manifest, mirPending, mirBatch, srcWatcherVars, scanVars, edits, threadVars, cliVars, moved, engineVars>>

\* ------------------------------------------------------------- engine
\* main_loop, periodic rescan: every Manifest is cloned under its mutex,
\* which is released again before full_scan runs on the clones.
ScanBegin ==
    /\ scanPc = "idle"
    /\ lock = "none"
    /\ scanManifest' = manifest
    /\ scanTodo' = Universe
    /\ scanPc' = "walk"
    /\ last' = Step("scan", "clone", <<>>, "none", "none")
    /\ UNCHANGED <<fsVars, manifest, disk, lock, srcWatcherVars, mirWatcherVars, edits, threadVars, cliVars, moved, engineVars>>

\* scan_repo, the walk: one directory entry; a path that is a regular file
\* and in scope is synced against the clone.
ScanFile(k) ==
    /\ scanPc = "walk" /\ k \in scanTodo
    /\ scanTodo' = scanTodo \ {k}
    /\ \E newer \in BOOLEAN, t \in clock..MaxStamp :
        LET walked == src[k].kind = "file" /\ ShouldMirror(k)
            r == IF walked THEN SyncFile(SourcePath(k), k, scanManifest, newer, t)
                 ELSE [Unchanged(scanManifest) EXCEPT !.out = "none", !.branch = "not_walked"]
        IN  /\ (r.out = "Conflict" \/ (newer /\ t = clock))
            /\ src' = r.src /\ mir' = r.mir /\ ext' = r.ext /\ base' = r.base /\ conf' = r.conf
            /\ userMirror' = StillUserMirror(r.mir)
            /\ clock' = IF r.out = "Conflict" THEN t ELSE clock
            /\ scanManifest' = r.man
            /\ srcPending' = Enqueue(srcPending, k, r.sev)
            /\ mirPending' = Enqueue(mirPending, k, r.mev)
            /\ last' = Step("scan", IF walked THEN "sync_file" ELSE "walk", k, r.out, r.branch)
    /\ UNCHANGED <<manifest, disk, lock, srcBatch, srcSave, mirBatch, mirSave, scanPc,
                   edits, threadVars, cliVars, moved, engineVars>>

\* scan_repo, after the walk: prune_stale on the clone, then manifest.save.
ScanPrune ==
    /\ scanPc = "walk" /\ scanTodo = {}
    /\ LET r == PruneStale(scanManifest)
       IN  /\ mir' = r.mir /\ base' = r.base
           /\ userMirror' = StillUserMirror(r.mir)
           /\ scanManifest' = r.man
           /\ disk' = r.man
           /\ mirPending' = [k \in Universe |-> IF k \in r.removed THEN "Deleted" ELSE mirPending[k]]
           /\ last' = Step("scan", "prune_stale", <<>>, IF r.pruned > 0 THEN "pruned" ELSE "none", "none")
    /\ scanPc' = "writeback"
    /\ UNCHANGED <<src, ext, conf, clock, manifest, lock, srcWatcherVars, mirBatch, mirSave,
                   scanTodo, edits, threadVars, cliVars, moved, engineVars>>

\* main_loop, after full_scan: *arc.lock().unwrap() = v
ScanEnd ==
    /\ scanPc = "writeback"
    /\ lock = "none"
    /\ manifest' = scanManifest
    /\ scanManifest' = EmptyManifest
    /\ scanPc' = "idle"
    /\ last' = Step("scan", "writeback", <<>>, "none", "none")
    /\ UNCHANGED <<fsVars, disk, lock, srcWatcherVars, mirWatcherVars, scanTodo, edits, threadVars, cliVars, moved, engineVars>>

\* ------------------------------------------------------------- the system
Next ==
    \/ \E k \in Keys, c \in Contents : UserWriteSource(k, c)
    \/ \E k \in Keys : UserDeleteSource(k)
    \/ \E k \in Keys, c \in Contents : UserWriteMirror(k, c)
    \/ \E k \in Keys : UserDeleteMirror(k)
    \/ \E k \in Keys, target \in {Absent, Regular(InitialContent)} : UserLinkMirror(k, target)
    \/ SrcDrain
    \/ \E k \in Keys : SrcApply(k)
    \/ SrcFlushEnd
    \/ MirDrain
    \/ \E k \in Keys : MirApply(k)
    \/ MirFlushEnd
    \/ ScanBegin
    \/ \E k \in Keys : ScanFile(k)
    \/ ScanPrune
    \/ ScanEnd

Spec == Init /\ [][Next]_vars
\* ============================================================= claims
\* The step just taken was taken by the core (a flush or the scan).
CoreStep == last'.actor \in {"src", "mir", "scan"}

\* The Manifest a step's linker call is handed: the scan runs on the
\* engine's clone, a flush on the shared Manifest.
ManBefore == IF last'.actor = "scan" THEN scanManifest ELSE manifest
ManAfter == IF last'.actor = "scan" THEN scanManifest' ELSE manifest'

\* The step applies a Created/Modified event for k, or the scan visits k.
SyncsKey(k) ==
    /\ last'.key = k
    /\ \/ last'.actor = "src" /\ srcBatch[k] \in {"Created", "Modified"}
       \/ last'.actor = "mir" /\ mirBatch[k] = "Modified"
       \/ last'.actor = "scan" /\ last'.op \in {"sync_file", "walk"}

\* What reading the mirror path yields (a symlink is followed).
MirrorRead(k) == IF mir[k].kind = "symlink" THEN ext[k] ELSE mir[k]

\* No event is pending or being applied and no scan is running.
Quiescent ==
    /\ srcPending = NoEvents /\ srcBatch = NoEvents
    /\ mirPending = NoEvents /\ mirBatch = NoEvents
    /\ lock = "none" /\ scanPc = "idle"

\* C1: a regular mirror file the user wrote, whose key has no entry in the
\* output_dir's Manifest (neither the shared one nor the persisted file), is
\* never modified or deleted by a step of the core; sync_file on such a
\* file returns Claimed when the bytes equal the source's and Skipped,
\* changing nothing, when they differ.
C1_ForeignNeverTouched ==
    [][\A k \in Keys :
        (/\ CoreStep
         /\ mir[k].kind = "file" /\ k \in userMirror
         /\ ~manifest[k].present /\ ~disk[k].present)
        => /\ mir'[k] = mir[k]
           /\ (last'.op = "sync_file" /\ last'.key = k /\ src[k] # mir[k])
                => (last'.out = "Skipped" /\ src' = src /\ ManAfter = ManBefore)
           /\ (last'.op = "sync_file" /\ last'.key = k /\ src[k] = mir[k])
                => (last'.out = "Claimed" /\ src' = src)]_vars

\* C2: from a synced key (mirror = base, Manifest hash = hash of that text,
\* resp. source = base) with only the other side edited, the flush (or scan)
\* step that syncs the key leaves both sides and the base cache equal to the
\* edited text, the Manifest hash equal to its hash, and returns Copied.
OneSideEdited(k, same, edited) ==
    /\ ManBefore[k].present
    /\ same.kind = "file" /\ edited.kind = "file" /\ base[k] = same
    /\ ManBefore[k].hash = Hash(same.text)
    /\ edited # same

C2_SymmetricSync ==
    [][\A k \in Keys :
        (SyncsKey(k) /\ (OneSideEdited(k, mir[k], src[k]) \/ OneSideEdited(k, src[k], mir[k])))
        => LET edited == IF OneSideEdited(k, mir[k], src[k]) THEN src[k] ELSE mir[k]
           IN  /\ src'[k] = edited /\ mir'[k] = edited /\ base'[k] = edited
               /\ ManAfter[k].present /\ ManAfter[k].hash = Hash(edited.text)
               /\ last'.op = "sync_file" /\ last'.out = "Copied"]_vars

C2_Witness ==
    /\ last.actor = "mir" /\ last.op = "sync_file" /\ last.branch = "mirror_to_source"
    /\ last.out = "Copied"
    /\ src[last.key] = mir[last.key] /\ base[last.key] = mir[last.key]
    /\ mir[last.key] # Regular(InitialContent)

\* C3: a Deleted event applied by the source flush (resp. mirror flush) to
\* a key in the Manifest removes the regular mirror file (resp. the source
\* file at the entry's recorded path), the Manifest entry and the base-cache
\* file; for a key not in the Manifest it changes nothing and returns false.
\* A user's deletion is enqueued as Deleted in the watcher of its side.
C3_DeleteReciprocal ==
    [][\A k \in Keys :
        /\ (last'.actor = "src" /\ last'.key = k /\ srcBatch[k] = "Deleted" /\ manifest[k].present)
            => (/\ mir'[k].kind # "file" /\ (mir[k].kind = "file" => mir'[k] = Absent)
                /\ ~manifest'[k].present /\ base'[k] = Absent
                /\ last'.op = "propagate_delete" /\ last'.out = "true")
        /\ (last'.actor = "mir" /\ last'.key = k /\ mirBatch[k] = "Deleted" /\ manifest[k].present)
            => (/\ src'[manifest[k].source.rel] = Absent
                /\ ~manifest'[k].present /\ base'[k] = Absent
                /\ last'.op = "propagate_mirror_delete" /\ last'.out = "true")
        /\ (/\ last'.key = k /\ ~manifest[k].present
            /\ \/ last'.actor = "src" /\ srcBatch[k] = "Deleted"
               \/ last'.actor = "mir" /\ mirBatch[k] = "Deleted")
            => (/\ last'.out = "false"
                /\ src' = src /\ mir' = mir /\ base' = base /\ manifest' = manifest)
        /\ (last'.actor = "user" /\ src[k].kind = "file" /\ src'[k] = Absent)
            => srcPending'[k] = "Deleted"
        /\ (last'.actor = "user" /\ mir[k].kind = "file" /\ mir'[k] = Absent)
            => mirPending'[k] = "Deleted"]_vars

C3_Witness ==
    /\ last.actor = "mir" /\ last.op = "propagate_mirror_delete" /\ last.out = "true"
    /\ src[last.key] = Absent /\ mir[last.key] = Absent
    /\ base[last.key] = Absent /\ ~manifest[last.key].present

\* C4: when both sides differ from the Manifest hash and from each other and
\* the merge conflicts (or no base exists), sync_file returns Conflict, one
\* side's text (the winner's) is in both live files and in the base cache,
\* the Manifest hash is its hash, the loser's text is in a conflict file of
\* the loser's side, and no other conflict file is written.
Overlapping(b, s, m) == \E i \in 1..Len(b) : s[i] # b[i] /\ m[i] # b[i] /\ s[i] # m[i]

BothChanged(k) ==
    /\ ManBefore[k].present
    /\ src[k].kind = "file" /\ mir[k].kind = "file" /\ src[k] # mir[k]
    /\ Hash(src[k].text) # ManBefore[k].hash
    /\ Hash(mir[k].text) # ManBefore[k].hash

ConflictKept(k, winner, loser, loserSide, winnerSide) ==
    /\ src'[k] = winner /\ mir'[k] = winner /\ base'[k] = winner
    /\ ManAfter[k].present /\ ManAfter[k].hash = Hash(winner.text)
    /\ conf'[winnerSide] = conf[winnerSide]
    /\ \E t \in Stamps :
        /\ conf'[loserSide][k][t] = loser
        /\ \A u \in Stamps \ {t} : conf'[loserSide][k][u] = conf[loserSide][k][u]

C4_ConflictKeepsLoser ==
    [][\A k \in Keys :
        (/\ SyncsKey(k) /\ BothChanged(k)
         /\ (base[k].kind # "file" \/ Overlapping(base[k].text, src[k].text, mir[k].text)))
        => /\ last'.out = "Conflict"
           /\ \/ ConflictKept(k, src[k], mir[k], "mirror", "source")
              \/ ConflictKept(k, mir[k], src[k], "source", "mirror")]_vars

C4_Witness ==
    /\ last.op = "sync_file" /\ last.out = "Conflict" /\ last.branch = "conflict_keep_mirror"
    /\ src[last.key] = mir[last.key]
    /\ \E t \in Stamps : /\ conf["source"][last.key][t].kind = "file"
                         /\ conf["source"][last.key][t] # src[last.key]

\* C5: when both sides differ from the Manifest hash, a base exists and no
\* region was changed on both sides, sync_file writes to source, mirror and
\* base cache the text that has each side's changed regions, sets the
\* Manifest hash to its hash, writes no conflict file and returns Merged.
C5_CleanMerge ==
    [][\A k \in Keys :
        (/\ SyncsKey(k) /\ BothChanged(k) /\ base[k].kind = "file"
         /\ \A i \in 1..Len(base[k].text) :
                src[k].text[i] = base[k].text[i] \/ mir[k].text[i] = base[k].text[i])
        => LET merged == Regular([i \in 1..Len(base[k].text) |->
                            IF src[k].text[i] = base[k].text[i]
                            THEN mir[k].text[i] ELSE src[k].text[i]])
           IN  /\ last'.out = "Merged"
               /\ src'[k] = merged /\ mir'[k] = merged /\ base'[k] = merged
               /\ ManAfter[k].present /\ ManAfter[k].hash = Hash(merged.text)
               /\ conf' = conf]_vars

C5_Witness ==
    /\ last.op = "sync_file" /\ last.out = "Merged"
    /\ src[last.key] = Regular(<<1, 1>>) /\ mir[last.key] = Regular(<<1, 1>>)
    /\ base[last.key] = Regular(<<1, 1>>)

\* C6: sync_file returns Claimed exactly when source and mirror are regular
\* files with equal hashes and the key has no Manifest entry; then the entry
\* it inserts has the hash of both files, the base cache holds that text and
\* neither file is changed.
C6_ClaimSafety ==
    [][\A k \in Keys :
        LET claimable == /\ src[k].kind = "file" /\ mir[k].kind = "file"
                         /\ ~ManBefore[k].present
                         /\ Hash(src[k].text) = Hash(mir[k].text)
        IN  /\ (SyncsKey(k) /\ last'.actor # "mir" /\ claimable) => last'.out = "Claimed"
            /\ (last'.key = k /\ last'.op = "sync_file" /\ last'.out = "Claimed")
                => /\ claimable
                   /\ ManAfter[k].present
                   /\ ManAfter[k].hash = Hash(src'[k].text)
                   /\ ManAfter[k].hash = Hash(mir'[k].text)
                   /\ ManAfter[k].source = SourcePath(k)
                   /\ base'[k] = src[k]
                   /\ src' = src /\ mir' = mir]_vars

C6_Witness ==
    /\ last.op = "sync_file" /\ last.out = "Claimed"
    /\ mir[last.key].kind = "file" /\ src[last.key] = mir[last.key]
    /\ base[last.key] = src[last.key]

\* C7: while a symlink is at the mirror path of a key, no step of the core
\* creates, modifies or deletes the file the link points to, and the link
\* stays in place.
C7_SymlinkNeverFollowed ==
    [][\A k \in Keys :
        (CoreStep /\ mir[k].kind = "symlink") => (ext'[k] = ext[k] /\ mir'[k] = mir[k])]_vars

\* C8: at quiescence (nothing pending, no flush or scan running) every key
\* in the Manifest has its source file (at the recorded path) and its mirror
\* file, and the hash of each equals the entry's hash.
C8_OwnershipAtQuiescence ==
    Quiescent =>
        \A k \in Keys : manifest[k].present =>
            /\ FileAt(manifest[k].source).kind = "file"
            /\ MirrorRead(k).kind = "file"
            /\ Hash(FileAt(manifest[k].source).text) = manifest[k].hash
            /\ Hash(MirrorRead(k).text) = manifest[k].hash

\* C9: after every linker operation, a base-cache file exists for exactly
\* the keys of the Manifest the operation was handed, and its text hashes
\* to the entry's hash.
C9_BaseCachePaired ==
    LET M == IF last.actor = "scan" THEN scanManifest ELSE manifest
    IN  last.op \in {"sync_file", "propagate_delete", "propagate_mirror_delete", "prune_stale"}
        => \A k \in Keys :
            /\ M[k].present <=> base[k].kind = "file"
            /\ M[k].present => Hash(base[k].text) = M[k].hash

\* C10: at most one of the source flush, the mirror flush and the full scan
\* is working on the Manifest and mirror tree of the output_dir at a time.
SrcFlushing == lock = "src"
MirFlushing == lock = "mir"
Scanning == scanPc # "idle"

C10_OneAtATime ==
    /\ ~(SrcFlushing /\ MirFlushing)
    /\ ~(Scanning /\ SrcFlushing)
    /\ ~(Scanning /\ MirFlushing)

\* C15: a flush step that changes the shared Manifest (an entry inserted,
\* refreshed or removed) marks the flush for saving, and the flush's last
\* step then writes the Manifest file, leaving it equal to the Manifest in
\* memory.
FlushChangesManifest(actor) ==
    /\ last'.actor = actor
    /\ last'.op \in {"sync_file", "propagate_delete", "propagate_mirror_delete"}
    /\ manifest' # manifest

C15_SavedAfterFlush ==
    [][/\ FlushChangesManifest("src") => srcSave'
       /\ FlushChangesManifest("mir") => mirSave'
       /\ (last'.op = "flush_end" /\ (srcSave \/ mirSave)) => disk' = manifest']_vars

\* ===================================================== the coalescing thread
\* create_watcher's debounce thread, wake by wake (the MirrorWatcher's thread,
\* create_mirror_watcher, is the same loop around flush_mirror_events).
\* debounce_seconds, in wakes of the thread (check_interval = 100 ms).
Debounce == 2

\* last_event_time.elapsed() as this wake sees it; a marker that is not set
\* is set to now.
SrcSeen == IF srcTimer = <<>> THEN 0 ELSE srcTimer[1]

\* history: `edits` at this wake joins the log of the last Debounce wakes.
Logged ==
    LET l == Append(wakeLog, edits)
    IN  IF Len(l) > Debounce THEN Tail(l) ELSE l

\* A drain that leaves the drained events in nobody's hands.
DrainedLossy ==
    /\ srcBatch' = NoEvents
    /\ srcPending' = NoEvents
    /\ srcBurst' = edits - srcDrainedAt
    /\ srcDrainedAt' = edits

\* flush_source_events, the drain: std::mem::take under the pending mutex.
Drained ==
    /\ srcBatch' = srcPending
    /\ srcPending' = NoEvents
    /\ srcBurst' = edits - srcDrainedAt
    /\ srcDrainedAt' = edits

\* A thread that breaks out of its loop on stop without the final flush.
SrcFinalSkipped ==
    /\ ~srcFinal /\ SrcIdle
    /\ srcStop
    /\ srcFinal' = TRUE
    /\ wakeLog' = Logged
    /\ last' = Step("src", "drain", <<>>, "final", "none")
    /\ UNCHANGED <<fsVars, manifest, disk, lock, srcPending, srcBatch, srcSave, mirWatcherVars,
                   scanVars, edits, srcStop, srcTimer, cancelPc, srcBurst, srcDrainedAt, cliVars, moved, engineVars>>

\* A wake that finds stop set: the final flush, whatever the marker says,
\* then break.
SrcFinalFlush ==
    /\ ~srcFinal /\ SrcIdle
    /\ srcStop
    /\ srcFinal' = TRUE
    /\ Drained
    /\ wakeLog' = Logged
    /\ last' = Step("src", "drain", <<>>, "final", "none")
    /\ UNCHANGED <<fsVars, manifest, disk, lock, srcSave, mirWatcherVars, scanVars, edits,
                   srcStop, srcTimer, cancelPc, cliVars, moved, engineVars>>

\* A wake that finds events pending and the marker at least debounce old:
\* flush, clear the marker, sleep.
SrcDebouncedFlush ==
    /\ ~srcFinal /\ SrcIdle
    /\ ~srcStop
    /\ srcPending # NoEvents
    /\ SrcSeen >= Debounce
    /\ Drained
    /\ srcTimer' = <<>>
    /\ wakeLog' = Logged
    /\ last' = Step("src", "drain", <<>>, "debounced", "none")
    /\ UNCHANGED <<fsVars, manifest, disk, lock, srcSave, mirWatcherVars, scanVars, edits,
                   srcStop, srcFinal, cancelPc, cliVars, moved, engineVars>>

\* A wake that does not flush: nothing pending clears the marker; events
\* pending and the marker younger than debounce leave it running. Then
\* sleep(check_interval).
SrcWait ==
    /\ ~srcFinal /\ SrcIdle
    /\ ~srcStop
    /\ IF srcPending = NoEvents
       THEN srcTimer' = <<>>
       ELSE SrcSeen < Debounce /\ srcTimer' = <<SrcSeen + 1>>
    /\ wakeLog' = Logged
    /\ last' = Step("thread", "wait", <<>>, "none", "none")
    /\ UNCHANGED <<fsVars, manifest, disk, lock, srcWatcherVars, mirWatcherVars, scanVars, edits,
                   srcStop, srcFinal, cancelPc, srcBurst, srcDrainedAt, cliVars, moved, engineVars>>

\* The thread has left its loop and returned.
SrcExited == srcFinal /\ SrcIdle

\* RepoWatcher::cancel: set stop ...
Cancel ==
    /\ cancelPc = "none"
    /\ srcStop' = TRUE
    /\ cancelPc' = "joining"
    /\ last' = Step("engine", "cancel", <<>>, "none", "none")
    /\ UNCHANGED <<fsVars, manifest, disk, lock, srcWatcherVars, mirWatcherVars, scanVars, edits,
                   srcFinal, srcTimer, wakeLog, srcBurst, srcDrainedAt, cliVars, moved, engineVars>>

\* ... and join the thread's handle.
CancelReturn ==
    /\ cancelPc = "joining"
    /\ SrcExited
    /\ cancelPc' = "returned"
    /\ last' = Step("engine", "cancelled", <<>>, "none", "none")
    /\ UNCHANGED <<fsVars, manifest, disk, lock, srcWatcherVars, mirWatcherVars, scanVars, edits,
                   srcStop, srcFinal, srcTimer, wakeLog, srcBurst, srcDrainedAt, cliVars, moved, engineVars>>

\* One repo's source side: the user, the RepoWatcher's thread and whoever
\* cancels the watcher. The OS watcher is dropped with the RepoWatcher, so
\* no event is delivered once cancel has returned.
NextWatcher ==
    \/ \E k \in Keys, c \in Contents : cancelPc # "returned" /\ UserWriteSource(k, c)
    \/ \E k \in Keys : cancelPc # "returned" /\ UserDeleteSource(k)
    \/ SrcWait
    \/ SrcDebouncedFlush
    \/ SrcFinalFlush
    \/ \E k \in Keys : SrcApply(k)
    \/ SrcFlushEnd
    \/ Cancel
    \/ CancelReturn

\* The thread is scheduled again after every sleep and a flush runs to its
\* end; cancel's join returns once the thread has.
WatcherFairness ==
    /\ WF_vars(SrcWait) /\ WF_vars(SrcDebouncedFlush) /\ WF_vars(SrcFinalFlush)
    /\ WF_vars(\E k \in Keys : SrcApply(k)) /\ WF_vars(SrcFlushEnd)
    /\ WF_vars(CancelReturn)

SpecWatcher == Init /\ [][NextWatcher]_vars /\ WatcherFairness

\* ------------------------------------------------- claims on the thread
\* The step is the user's on source path k; what handle_raw_source_event
\* makes of the OS event it raises.
SourceEvent(k) == last'.actor = "user" /\ last'.key = k
Classified(k) ==
    IF src'[k].kind # "file" THEN "Deleted"
    ELSE IF src[k].kind = "file" THEN "Modified" ELSE "Created"

\* The step applies the batch's event for k.
AppliesEvent(k) ==
    /\ last'.actor = "src" /\ last'.key = k
    /\ last'.op = IF srcBatch[k] = "Deleted" THEN "propagate_delete" ELSE "sync_file"

\* C11: whatever was pending for a path, an event for it leaves exactly the
\* type classified last pending; the drain hands that one event to the
\* flush; the flush applies it by its type, once (only a drain puts an
\* event in the batch, applying it takes it out), and does apply it.
C11_Coalescing ==
    /\ [][\A k \in Keys :
            /\ SourceEvent(k) => srcPending'[k] = Classified(k)
            /\ last'.op = "drain" => srcBatch'[k] = srcPending[k]
            /\ (last'.actor = "src" /\ last'.key = k)
                 => (srcBatch[k] # "none" /\ srcBatch'[k] = "none" /\ AppliesEvent(k))
            /\ srcBatch'[k] # srcBatch[k] => (last'.op = "drain" \/ AppliesEvent(k))]_vars
    /\ \A k \in Keys : (srcBatch[k] # "none") ~> (srcBatch[k] = "none")

\* Two or more events were enqueued for the path before the drain, and the
\* flush has applied the one event of the batch.
C11_Witness ==
    /\ srcBurst >= 2
    /\ last.actor = "src" /\ last.op \in {"sync_file", "propagate_delete"}

\* No event was enqueued during the Debounce wakes before this one.
QuietWindow == Len(wakeLog) = Debounce /\ wakeLog[1] = edits

\* C12: a debounced flush happens only at a wake before which no event was
\* enqueued for the whole debounce window.
C12_DebounceQuiet ==
    [][(last'.op = "drain" /\ last'.out = "debounced") => QuietWindow]_vars

\* C13: an event is enqueued in the pending map and leaves it only by a
\* drain; a drain hands the flush every pending event and leaves the map
\* empty, so an event enqueued around a drain is in that batch or pending for
\* the next; every event pending while the thread runs reaches a batch.
C13_NoEventLost ==
    /\ [][\A k \in Keys :
            /\ SourceEvent(k) => (srcPending'[k] # "none" /\ srcBatch' = srcBatch)
            /\ last'.op = "drain" => (srcBatch' = srcPending /\ srcPending' = NoEvents)
            /\ (srcPending[k] # "none" /\ srcPending'[k] = "none") => last'.op = "drain"]_vars
    /\ \A k \in Keys : (srcPending[k] # "none" /\ ~srcFinal) ~> (srcBatch[k] # "none")

\* An event arrived while the batch drained before it is still being
\* flushed: one event in the batch, the later one pending.
C13_Witness ==
    \E k \in Keys : srcBatch[k] # "none" /\ srcPending[k] # "none" /\ srcBurst >= 1

\* C14: once stop is set the thread's next wake drains everything pending
\* whatever the marker's age, the flush applies every drained event, and the
\* thread exits; cancel returns only when the thread has exited, and does
\* return.
C14_CancelDrains ==
    /\ [][/\ (last'.op = "drain" /\ last'.out = "final")
               => (srcStop /\ srcBatch' = srcPending /\ srcPending' = NoEvents)
          /\ \A k \in Keys : (srcBatch[k] # "none" /\ srcBatch'[k] = "none") => AppliesEvent(k)
          /\ (srcStop /\ ~srcFinal) => last'.out # "debounced"]_vars
    /\ [](cancelPc = "returned" => SrcExited)
    /\ (cancelPc = "joining") ~> (cancelPc = "returned")

\* cancel has returned after a final flush of events younger than the
\* debounce window.
C14_Witness ==
    /\ cancelPc = "returned"
    /\ srcBurst >= 1 /\ srcTimer # <<>> /\ SrcSeen < Debounce

\* ========================================================= the sync command
\* `ulysses-link sync`: load the Manifest file, full_scan, print the summary,
\* exit; no engine and no watcher runs. The output_dir holds two files of
\* this repo and one of another repo that shares the output_dir.
OtherRepo == <<"repo", "2">>
OtherPath == "/home/u/repo2"
TreeKeys == {KeyOf(RepoName, <<"a", ".md">>), KeyOf(RepoName, <<"b", ".md">>)}
OtherKeys == {KeyOf(OtherRepo, <<"a", ".md">>)}
SyncKeys == TreeKeys \cup OtherKeys

\* Any source tree, any mirror contents: each file of the repo is absent or
\* holds one of two texts in the source; its mirror path is empty, a symlink
\* or a file with one of four texts; it may have been synced before (at
\* InitialContent). The other repo's synced file has lost its source.
SyncInit ==
    \E s \in [TreeKeys -> {Absent, Regular(<<0, 0>>), Regular(<<1, 0>>)}],
       m \in [TreeKeys -> {Absent, Symlink, Regular(<<0, 0>>), Regular(<<1, 0>>),
                           Regular(<<0, 1>>), Regular(<<2, 0>>)}],
       tracked \in SUBSET TreeKeys, other \in SUBSET OtherKeys :
        /\ src = [k \in SyncKeys |-> IF k \in TreeKeys THEN s[k] ELSE Absent]
        /\ mir = [k \in SyncKeys |-> IF k \in TreeKeys THEN m[k]
                                     ELSE IF k \in other THEN Regular(InitialContent) ELSE Absent]
        /\ base = [k \in SyncKeys |-> IF k \in tracked \cup other
                                      THEN Regular(InitialContent) ELSE Absent]
        /\ disk = [k \in SyncKeys |->
                     IF k \in tracked THEN ManifestEntry(SourcePath(k), Hash(InitialContent))
                     ELSE IF k \in other
                          THEN ManifestEntry([root |-> OtherPath, rel |-> k], Hash(InitialContent))
                     ELSE NoEntry]
        /\ manifest = EmptyManifest
        /\ ext = [k \in SyncKeys |-> Absent]
        /\ conf = NoConflicts
        /\ clock = 1
        /\ lock = "none"
        /\ srcPending = NoEvents /\ srcBatch = NoEvents /\ srcSave = FALSE
        /\ mirPending = NoEvents /\ mirBatch = NoEvents /\ mirSave = FALSE
        /\ scanPc = "idle" /\ scanManifest = EmptyManifest /\ scanTodo = {}
        /\ edits = 0
        /\ userMirror = {k \in TreeKeys : m[k].kind = "file" /\ k \notin tracked}
        /\ srcStop = FALSE /\ srcFinal = FALSE /\ srcTimer = <<>> /\ cancelPc = "none"
        /\ wakeLog = <<>> /\ srcBurst = 0 /\ srcDrainedAt = 0
        /\ result = ZeroResult /\ scanRepeat = FALSE
        /\ moved = <<>>
        /\ EngineUnused /\ EngineRunning
        /\ last = Step("cli", "start", <<>>, "none", "none")

\* main: load_manifests, then full_scan starts on the loaded Manifest.
SyncBegin ==
    /\ scanPc = "idle"
    /\ manifest' = disk
    /\ scanTodo' = Universe
    /\ scanPc' = "walk"
    /\ result' = ZeroResult
    /\ scanRepeat' = (last.op = "summary")
    /\ last' = Step("sync", "load", <<>>, "none", "none")
    /\ UNCHANGED <<fsVars, disk, lock, srcWatcherVars, mirWatcherVars, scanManifest, edits,
                   threadVars, moved, engineVars>>

\* scan_repo, the walk: one directory entry; a path that is a regular file
\* and in scope is synced and its outcome counted.
SyncWalk(k) ==
    /\ scanPc = "walk" /\ k \in scanTodo
    /\ scanTodo' = scanTodo \ {k}
    /\ \E newer \in BOOLEAN, t \in clock..MaxStamp :
        LET walked == src[k].kind = "file" /\ ShouldMirror(k)
            r == IF walked THEN SyncFile(SourcePath(k), k, manifest, newer, t)
                 ELSE [Unchanged(manifest) EXCEPT !.out = "none", !.branch = "not_walked"]
        IN  /\ (r.out = "Conflict" \/ (newer /\ t = clock))
            /\ src' = r.src /\ mir' = r.mir /\ ext' = r.ext /\ base' = r.base /\ conf' = r.conf
            /\ userMirror' = StillUserMirror(r.mir)
            /\ clock' = IF r.out = "Conflict" THEN t ELSE clock
            /\ manifest' = r.man
            /\ result' = Counted(result, r.out)
            /\ last' = Step("sync", IF walked THEN "sync_file" ELSE "walk", k, r.out, r.branch)
    /\ UNCHANGED <<disk, lock, srcWatcherVars, mirWatcherVars, scanPc, scanManifest, scanRepeat,
                   edits, threadVars, moved, engineVars>>

\* scan_repo, after the walk: prune_stale, then manifest.save.
SyncPrune ==
    /\ scanPc = "walk" /\ scanTodo = {}
    /\ LET r == PruneStale(manifest)
       IN  /\ mir' = r.mir /\ base' = r.base
           /\ userMirror' = StillUserMirror(r.mir)
           /\ manifest' = r.man
           /\ disk' = r.man
           /\ result' = [result EXCEPT !.pruned = r.pruned]
           /\ last' = Step("sync", "prune_stale", <<>>, IF r.pruned > 0 THEN "pruned" ELSE "none", "none")
    /\ scanPc' = "writeback"
    /\ UNCHANGED <<src, ext, conf, clock, lock, srcWatcherVars, mirWatcherVars, scanManifest,
                   scanTodo, scanRepeat, edits, threadVars, moved, engineVars>>

\* main: print_sync_summary(&result), and the process exits.
SyncSummary ==
    /\ scanPc = "writeback"
    /\ scanPc' = "idle"
    /\ manifest' = EmptyManifest
    /\ result' = ZeroResult
    /\ last' = Step("sync", "summary", <<>>, "none", "none")
    /\ UNCHANGED <<fsVars, disk, lock, srcWatcherVars, mirWatcherVars, scanManifest, scanTodo,
                   scanRepeat, edits, threadVars, moved, engineVars>>

NextSync ==
    \/ SyncBegin
    \/ \E k \in SyncKeys : SyncWalk(k)
    \/ SyncPrune
    \/ SyncSummary

SpecSync == SyncInit /\ [][NextSync]_vars

\* ------------------------------------------------- claims on the scan
\* The source files the scan's walk visits.
InScopeSources == {k \in Universe : src[k].kind = "file" /\ ShouldMirror(k)}

\* C16: a scan that starts right after another scan ended changes no file,
\* no base cache entry, no conflict file and no Manifest entry, and reports
\* created = merged = conflicts = pruned = errors = 0 with already-in-sync
\* equal to the number of in-scope source files.
C16_IdempotentScan ==
    [][(scanRepeat /\ last'.actor = "sync" /\ last'.op \in {"sync_file", "walk", "prune_stale"})
        => /\ src' = src /\ mir' = mir /\ ext' = ext /\ base' = base /\ conf' = conf
           /\ manifest' = manifest /\ disk' = disk
           /\ last'.op = "prune_stale"
                => result' = [ZeroResult EXCEPT !.already_existed = Cardinality(InScopeSources)]]_vars

\* This repo's keys whose source file is gone.
SourceGone == {k \in Universe : /\ manifest[k].present
                                /\ StartsWith(k, RepoName \o <<"/">>)
                                /\ src[k].kind # "file"}

\* C17: the scan's prune leaves every key of this repo whose source is gone
\* without a regular mirror file, base cache entry and Manifest entry (in
\* memory and in the saved file), reports their number as pruned, and leaves
\* every other key's mirror, base and entry, other repos' included, as
\* they were.
C17_StalePrune ==
    [][(last'.actor = "sync" /\ last'.op = "prune_stale")
        => /\ \A k \in SourceGone :
                /\ mir'[k].kind # "file" /\ base'[k] = Absent
                /\ ~manifest'[k].present /\ ~disk'[k].present
           /\ \A k \in Universe \ SourceGone :
                mir'[k] = mir[k] /\ base'[k] = base[k] /\ manifest'[k] = manifest[k]
           /\ result'.pruned = Cardinality(SourceGone)]_vars

\* A scan has pruned a key of this repo while another repo's entry, whose
\* source is gone too, is still in the Manifest.
C17_Witness ==
    /\ last.actor = "sync" /\ last.op = "prune_stale"
    /\ result.pruned >= 1
    /\ \E k \in OtherKeys : manifest[k].present /\ mir[k].kind = "file" /\ base[k] # Absent

\* ======================================================= a source directory
\* The repo has a directory docs with one file, a sibling directory docs2
\* with one file, and shares the output_dir with repo2, which has a docs
\* directory of its own.
DocsDir == KeyOf(RepoName, <<"docs">>)
DocsFile == KeyOf(RepoName, <<"docs", "/", "x", ".md">>)
SiblingFile == KeyOf(RepoName, <<"docs", "2", "/", "y", ".md">>)
OtherDocsFile == KeyOf(OtherRepo, <<"docs", "/", "x", ".md">>)
DirFiles == {DocsFile, SiblingFile}
DirKeys == {DocsDir, OtherDocsFile} \cup DirFiles

\* Key k is a path below directory d.
Under(k, d) == StartsWith(k, d \o <<"/">>)

DirInit == \E owned \in SUBSET (DirFiles \cup {OtherDocsFile}) : Started(DirKeys, owned)

\* The user removes a source directory and what is in it (rm -r): the OS
\* reports Remove(Folder) for the directory, classified DirDeleted, and,
\* depending on the platform (each), Remove(File) for every file in it.
UserDeleteDir(d, each) ==
    /\ edits < MaxEdits
    /\ \E k \in DirFiles : Under(k, d) /\ src[k].kind = "file"
    /\ src' = [k \in Universe |-> IF Under(k, d) THEN Absent ELSE src[k]]
    /\ srcPending' = [k \in Universe |->
                        IF k = d THEN "DirDeleted"
                        ELSE IF each /\ Under(k, d) /\ src[k].kind = "file" THEN "Deleted"
                        ELSE srcPending[k]]
    /\ edits' = edits + 1
    /\ last' = Step("user", "rmdir", d, "none", "none")
    /\ UNCHANGED <<mir, ext, base, conf, clock, manifest, disk, lock, srcBatch, srcSave,
                   mirWatcherVars, scanVars, userMirror, threadVars, cliVars, moved, engineVars>>

NextDirs ==
    \/ \E each \in BOOLEAN : UserDeleteDir(DocsDir, each)
    \/ \E k \in DirFiles, c \in Contents : src[k].kind = "file" /\ UserWriteSource(k, c)
    \/ \E k \in DirFiles : UserDeleteSource(k)
    \/ SrcDrain
    \/ \E k \in DirKeys : SrcApply(k)
    \/ SrcFlushEnd

SpecDirs == DirInit /\ [][NextDirs]_vars

\* C18: the flush step that runs remove_dir_mirrors for directory d removes
\* the Manifest entry, the regular mirror file and the base of every key
\* that begins `repo/dir_rel/`, and leaves every other key (a sibling whose
\* name begins with the directory's, another repo's) as it was.
C18_RemoveDirExact ==
    [][\A d \in {DocsDir} :
        (last'.op = "remove_dir_mirrors" /\ last'.key = d)
        => \A k \in Universe :
             IF Under(k, d) /\ StartsWith(k, RepoName \o <<"/">>)
             THEN ~manifest'[k].present /\ mir'[k].kind # "file" /\ base'[k] = Absent
             ELSE manifest'[k] = manifest[k] /\ mir'[k] = mir[k] /\ base'[k] = base[k]]_vars

\* ================================================================= renames
\* Two in-scope files of the repo, and the name an editor gives the
\* temporary file it writes next to a mirror file before renaming it over
\* the file (out of scope: it does not end in .md).
FileA == KeyOf(RepoName, <<"a", ".md">>)
FileB == KeyOf(RepoName, <<"b", ".md">>)
TempOf(k) == k \o <<"~">>
MoveFiles == {FileA, FileB}
MoveKeys == MoveFiles \cup {TempOf(FileA)}

\* What notify reports for a rename depends on the platform: one event with
\* both paths (Both), one event per path with From and To, or one event per
\* path with an unspecified mode (Any, the FSEvents backend).
RenameModes == {"Both", "FromTo", "Any"}

MoveInit == \E owned \in SUBSET MoveFiles : Started(MoveKeys, owned)

\* The user renames source file a to the free path b;
\* handle_raw_source_event classifies the rename event(s). a no longer
\* exists, so path.is_dir() is false for it.
UserRenameSource(a, b, mode) ==
    /\ edits < MaxEdits
    /\ a # b
    /\ src[a].kind = "file" /\ src[b].kind = "absent"
    /\ src' = [src EXCEPT ![a] = Absent, ![b] = src[a]]
    /\ srcPending' = [srcPending EXCEPT ![a] = IF mode = "Any" THEN "Created" ELSE "Deleted",
                                        ![b] = "Created"]
    /\ moved' = IF /\ manifest[a].present /\ mir[a] = src[a] /\ base[a] = src[a]
                   /\ ~manifest[b].present /\ mir[b].kind = "absent"
                THEN <<a, b>> ELSE <<>>
    /\ edits' = edits + 1
    /\ last' = Step("user", "rename", a, mode, "none")
    /\ UNCHANGED <<mir, ext, base, conf, clock, manifest, disk, lock, srcBatch, srcSave,
                   mirWatcherVars, scanVars, userMirror, threadVars, cliVars, engineVars>>

\* The user's editor saves mirror file k by atomic replace: it writes the
\* new text to a temporary file (Create, ignored; Modify(Data), enqueued
\* for the temporary name) and renames that onto k (Modify(Name), which
\* handle_raw_mirror_event's last arm ignores). FSEvents may report the
\* file's earlier data write with the new path as well (carried); inotify
\* reports the rename alone.
UserReplaceMirror(k, c, carried) ==
    /\ edits < MaxEdits
    /\ TempOf(k) \in Universe
    /\ manifest[k].present /\ mir[k].kind = "file"
    /\ c \in UserTexts(mir[k])
    /\ mir' = [mir EXCEPT ![k] = Regular(c)]
    /\ userMirror' = userMirror \cup {k}
    /\ mirPending' = Enqueue(Enqueue(mirPending, TempOf(k), "Modified"),
                              k, IF carried THEN "Modified" ELSE "none")
    /\ moved' = <<TempOf(k), k>>
    /\ edits' = edits + 1
    /\ last' = Step("user", "replace", k, "none", "none")
    /\ UNCHANGED <<src, ext, base, conf, clock, manifest, disk, lock, mirBatch, mirSave,
                   srcWatcherVars, scanVars, threadVars, cliVars, engineVars>>

\* The user's renames and what the two watchers make of them; after a
\* rename the user leaves the trees alone.
NextMoves ==
    \/ \E a \in MoveFiles, b \in MoveFiles, mode \in RenameModes :
         moved = <<>> /\ UserRenameSource(a, b, mode)
    \/ \E k \in MoveFiles, c \in Contents, carried \in BOOLEAN :
         moved = <<>> /\ UserReplaceMirror(k, c, carried)
    \/ \E k \in MoveFiles, c \in Contents : moved = <<>> /\ UserWriteSource(k, c)
    \/ SrcDrain
    \/ \E k \in MoveKeys : SrcApply(k)
    \/ SrcFlushEnd
    \/ MirDrain
    \/ \E k \in MoveKeys : MirApply(k)
    \/ MirFlushEnd

SpecMoves == MoveInit /\ [][NextMoves]_vars

\* C19: after an owned, synced source file a was renamed to the free in-scope
\* path b, a source flush that ends with no event left pending for a or b
\* leaves no mirror file, base or Manifest entry for a, and a mirror file
\* with the file's text and a Manifest entry for b.
C19_SourceRename ==
    [][(/\ last'.actor = "src" /\ last'.op = "flush_end"
        /\ moved # <<>> /\ moved[1] \in MoveFiles
        /\ srcPending[moved[1]] = "none" /\ srcPending[moved[2]] = "none")
        => LET a == moved[1]
               b == moved[2]
           IN  /\ mir'[a].kind = "absent" /\ base'[a] = Absent /\ ~manifest'[a].present
               /\ mir'[b] = src'[b] /\ src'[b].kind = "file" /\ manifest'[b].present]_vars

\* C20: replacing an owned mirror file's content by a rename of a temporary
\* file onto it enqueues a mirror event for the file's key; the mirror flush
\* that ends with nothing pending has copied the new text to the source; the
\* temporary name never gets a source file.
C20_AtomicReplace ==
    [][/\ \A k \in MoveFiles :
            (last'.op = "replace" /\ last'.key = k) => mirPending'[k] # "none"
       /\ (/\ last'.actor = "mir" /\ last'.op = "flush_end"
           /\ moved # <<>> /\ moved[1] \notin MoveFiles /\ mirPending = NoEvents)
            => src'[moved[2]] = mir'[moved[2]]
       /\ \A k \in MoveFiles : TempOf(k) \in Universe => src'[TempOf(k)] = Absent]_vars


\* ================================================ claims about a gone source
\* The step hands key k to the linker: a flush applies a Created/Modified
\* event for k through sync_file, or the scan runs prune_stale (over every
\* entry of the repo).
ProcessesKey(k) ==
    \/ last'.actor \in {"src", "mir"} /\ last'.op = "sync_file" /\ last'.key = k
    \/ last'.actor = "scan" /\ last'.op = "prune_stale"

\* C21: whenever a flush or a scan processes a key that has a Manifest entry
\* whose recorded source path no longer exists, the step removes the regular
\* mirror file, the base cache entry and the Manifest entry of the key.
C21_SourceGonePropagated ==
    [][\A k \in Keys :
        (/\ ProcessesKey(k)
         /\ ManBefore[k].present
         /\ FileAt(ManBefore[k].source).kind # "file")
        => /\ ~ManAfter[k].present
           /\ mir'[k].kind # "file"
           /\ base'[k] = Absent]_vars


\* ==================================================== a repo whose path moved
\* The repo was mirrored while it lived at OldPath; it now lives at RepoPath
\* and the config names RepoPath (reload_config's `old_rc.path != new_rc.path`
\* re-scan, or the next run of the sync command): the Manifest entries written
\* before the move record sources under OldPath, which no longer exists.
OldPath == "/home/u/old"
RecordedRoots == {OldPath, RepoPath}

RepathInit ==
    \E s \in [TreeKeys -> {Absent, Regular(<<0, 0>>), Regular(<<1, 0>>)}],
       m \in [TreeKeys -> {Absent, Regular(<<0, 0>>), Regular(<<1, 0>>), Regular(<<0, 1>>)}],
       roots \in [TreeKeys -> RecordedRoots],
       tracked \in SUBSET TreeKeys :
        /\ src = s
        /\ mir = m
        /\ base = [k \in TreeKeys |-> IF k \in tracked THEN Regular(InitialContent) ELSE Absent]
        /\ disk = [k \in TreeKeys |->
                     IF k \in tracked
                     THEN ManifestEntry([root |-> roots[k], rel |-> k], Hash(InitialContent))
                     ELSE NoEntry]
        /\ (\A k \in TreeKeys \ tracked : roots[k] = RepoPath)
        /\ manifest = [k \in TreeKeys |-> NoEntry]
        /\ ext = [k \in TreeKeys |-> Absent]
        /\ conf = [side \in {"source", "mirror"} |-> [k \in TreeKeys |-> [t \in Stamps |-> Absent]]]
        /\ clock = 1
        /\ lock = "none"
        /\ srcPending = [k \in TreeKeys |-> "none"] /\ srcBatch = [k \in TreeKeys |-> "none"]
        /\ srcSave = FALSE
        /\ mirPending = [k \in TreeKeys |-> "none"] /\ mirBatch = [k \in TreeKeys |-> "none"]
        /\ mirSave = FALSE
        /\ scanPc = "idle" /\ scanManifest = [k \in TreeKeys |-> NoEntry] /\ scanTodo = {}
        /\ edits = 0
        /\ userMirror = {k \in TreeKeys : m[k].kind = "file" /\ k \notin tracked}
        /\ srcStop = FALSE /\ srcFinal = FALSE /\ srcTimer = <<>> /\ cancelPc = "none"
        /\ wakeLog = <<>> /\ srcBurst = 0 /\ srcDrainedAt = 0
        /\ result = ZeroResult /\ scanRepeat = FALSE
        /\ moved = <<>>
        /\ EngineUnused /\ EngineRunning
        /\ last = Step("cli", "start", <<>>, "none", "none")

NextRepath ==
    \/ SyncBegin
    \/ \E k \in TreeKeys : SyncWalk(k)
    \/ SyncPrune
    \/ SyncSummary

SpecRepath == RepathInit /\ [][NextRepath]_vars

\* C22: after every sync_file(source, mirror, key) of the scan whose outcome
\* is not Skipped, the Manifest entry of the key records the path the call
\* was given as its source.
C22_SourcePathCurrent ==
    [][(last'.actor = "sync" /\ last'.op = "sync_file" /\ last'.out # "Skipped")
        => /\ manifest'[last'.key].present
           /\ manifest'[last'.key].source = SourcePath(last'.key)]_vars


\* ============================================================ config reload
\* The engine with two repos and two output directories, at the level of
\* repos: which RepoWatchers and MirrorWatchers run on what, which Manifests
\* are loaded, and which keys have a mirror file, a base cache entry and a
\* Manifest entry in each output_dir. Every repo has one in-scope file, which
\* each checkout of the repo holds with the same text.
Repos == {RepoName, OtherRepo}
OutputDirs == {"/out/1", "/out/2"}
RepoFile == <<"a", ".md">>
ReloadKeys == {KeyOf(r, RepoFile) : r \in Repos}

\* RepoConfig: path, the raw include patterns, the exclude patterns the
\* Gitignore was compiled from, and the output_dir of the repo.
NoRepo == [present |-> FALSE, path |-> "", include_patterns |-> <<>>, exclude |-> <<>>, output_dir |-> ""]
RepoConfig(path, include, exclude, dir) ==
    [present |-> TRUE, path |-> path, include_patterns |-> include, exclude |-> exclude,
     output_dir |-> dir]

IncludeSets == {<<"*.md">>, <<"*.md", "*.txt">>}
ExcludeSets == {<<".git/">>, <<".git/", "drafts/">>}

\* The validated configs a config file can hold: the first repo in any
\* output_dir, as first configured or with another path, other include
\* patterns or other exclude patterns; the second repo in any output_dir.
RepoConfigs(r) ==
    IF r = RepoName
    THEN {rc \in {RepoConfig(p, i, x, d) : p \in {RepoPath, OldPath}, i \in IncludeSets,
                                           x \in ExcludeSets, d \in OutputDirs} :
            Cardinality({rc.path # RepoPath, rc.include_patterns # <<"*.md">>,
                         rc.exclude # <<".git/">>} \ {FALSE}) <= 1
            /\ (rc.path = RepoPath \/ (rc.include_patterns = <<"*.md">> /\ rc.exclude = <<".git/">>))
            /\ (rc.include_patterns = <<"*.md">> \/ rc.exclude = <<".git/">>)}
    ELSE {RepoConfig(OtherPath, <<"*.md">>, <<".git/">>, d) : d \in OutputDirs}
Configs == {c \in [Repos -> UNION {RepoConfigs(r) : r \in Repos} \cup {NoRepo}] :
                \A r \in Repos : c[r] \in RepoConfigs(r) \cup {NoRepo}}

\* Config::repos' names, and Config::active_output_dirs: the distinct
\* output_dirs the repos use.
RepoNames(c) == {r \in Repos : c[r].present}
ActiveOutputDirs(c) == {c[r].output_dir : r \in RepoNames(c)}

\* What load_config returns: a validated Config, or an error.
InvalidConfig == [valid |-> FALSE, repos |-> [r \in Repos |-> NoRepo]]
ValidConfig(c) == [valid |-> TRUE, repos |-> c]

\* A RepoWatcher holds the RepoConfig's path and matchers, the output_dir
\* and a clone of the Manifest Arc it was created with; `shared` says that
\* Arc is the one the engine holds for the output_dir now.
NoWatcher == [running |-> FALSE, repo |-> NoRepo, shared |-> FALSE]
RepoWatcher(rc) == [running |-> TRUE, repo |-> rc, shared |-> TRUE]
NoMirrorWatcher == [running |-> FALSE, shared |-> FALSE]
MirrorWatcher == [running |-> TRUE, shared |-> TRUE]

\* A loaded Manifest, by its keys; an output_dir on disk.
NotLoaded == [loaded |-> FALSE, entries |-> {}]
Loaded(keys) == [loaded |-> TRUE, entries |-> keys]
EmptyDir == [files |-> {}, bases |-> {}, saved |-> {}, corrupt |-> FALSE]


\* The engine's maps and the disk, as one value the steps of a reload hand on.
EngineNow == [w |-> watchers, mw |-> mirror_watchers, mf |-> manifests, out |-> outputs]

\* The engine's Arc for output_dir d is replaced or dropped: a watcher that
\* holds a clone of the old one keeps locking the old Manifest.
Unshare(e, d) ==
    [e EXCEPT
        !.w = [r \in Repos |-> IF e.w[r].running /\ e.w[r].repo.output_dir = d
                               THEN [e.w[r] EXCEPT !.shared = FALSE] ELSE e.w[r]],
        !.mw = [e.mw EXCEPT ![d] = IF e.mw[d].running THEN [e.mw[d] EXCEPT !.shared = FALSE]
                                   ELSE e.mw[d]]]

\* Manifest::load(dir) of a readable file, and manifests.insert(dir, Arc::new(..)).
InsertLoaded(e, d) == [Unshare(e, d) EXCEPT !.mf[d] = Loaded(e.out[d].saved)]
\* A reload that keeps the Manifest of an output_dir it no longer uses.
RemoveManifestKept(e, d) == e
\* manifests.remove(dir)
RemoveManifest(e, d) == [Unshare(e, d) EXCEPT !.mf[d] = NotLoaded]

\* stop_repo_watcher(name): remove from the map and cancel.
StopRepoWatcher(e, r) == [e EXCEPT !.w[r] = NoWatcher]

\* start_repo_watcher(repo_config): without a Manifest for the output_dir it
\* returns; a watcher create_watcher could not register is not inserted.
StartRepoWatcher(e, r, rc, registers) ==
    IF e.mf[rc.output_dir].loaded /\ registers
    THEN [e EXCEPT !.w[r] = RepoWatcher(rc)] ELSE e

\* start_mirror_watcher(output_dir)
StartMirrorWatcher(e, d, registers) ==
    IF e.mf[d].loaded /\ registers
    THEN [e EXCEPT !.mw[d] = MirrorWatcher] ELSE e

\* remove_repo_mirror(repo_name, output_dir, manifest): every entry of the
\* repo loses its mirror file, base cache entry and Manifest entry (the
\* Manifest is not saved).
RemoveRepoMirror(e, r, d) ==
    LET entries == {k \in e.mf[d].entries : StartsWith(k, r \o <<"/">>)}
    IN  [e EXCEPT !.out[d].files = @ \ entries,
                  !.out[d].bases = @ \ entries,
                  !.mf[d].entries = @ \ entries]

\* scan_repo(repo_config, output_dir, manifest): the repo's file is copied
\* (no mirror file), claimed (a mirror file with the same bytes and no
\* entry) or found in sync; nothing is stale; the Manifest is saved.
ScanRepo(e, r, d) ==
    LET k == KeyOf(r, RepoFile)
        synced == k \in e.out[d].files /\ k \in e.mf[d].entries
        entries == e.mf[d].entries \cup {k}
    IN  [e EXCEPT !.out[d] = [files |-> e.out[d].files \cup {k},
                              bases |-> IF synced THEN e.out[d].bases ELSE e.out[d].bases \cup {k},
                              saved |-> entries,
                              corrupt |-> FALSE],
                  !.mf[d].entries = entries]

\* `if let Some(manifest_arc) = self.manifests.get(dir)` around a scan or a removal.
IfLoaded(e, d, then) == IF e.mf[d].loaded THEN then ELSE e


\* is_simple_global_move: all old repos shared one output_dir and all new
\* repos share one, different, output_dir.
SimpleGlobalMove(old, new) ==
    /\ Cardinality(ActiveOutputDirs(old)) = 1
    /\ Cardinality(ActiveOutputDirs(new)) = 1
    /\ ActiveOutputDirs(old) # ActiveOutputDirs(new)
TheDir(c) == CHOOSE d \in ActiveOutputDirs(c) : TRUE

\* linker::move_output_dir(old_dir, new_dir), Ok(true): the old output tree
\* is renamed to the new location.
MoveOutputDir(e, old, new) == [e EXCEPT !.out[new] = e.out[old], !.out[old] = EmptyDir]

\* The simple global move up to Manifest::load(new_dir): the mirror watcher
\* on the old dir is cancelled and the directory moved if it can be.
MovePrepared(e, old, new, mv) ==
    LET stopped == [e EXCEPT !.mw[old] = NoMirrorWatcher]
    IN  IF mv = "moved" THEN MoveOutputDir(stopped, old, new) ELSE stopped
\* ... and after a successful load: the Manifest is relabelled.
MoveLoaded(e, old, new) == InsertLoaded(RemoveManifest(e, old), new)

\* A repo of the old config that is not in the new one.
RemovedRepo(e, r, old, new) ==
    IF old[r].present /\ ~new[r].present
    THEN LET stopped == StopRepoWatcher(e, r)
         IN  IfLoaded(stopped, old[r].output_dir, RemoveRepoMirror(stopped, r, old[r].output_dir))
    ELSE e

\* A newly active output_dir: its Manifest is loaded; a load error is logged.
NewlyActive(e, d, old, new) ==
    IF d \in ActiveOutputDirs(new) \ ActiveOutputDirs(old) /\ ~e.out[d].corrupt
    THEN InsertLoaded(e, d) ELSE e

\* A repo of the new config that is not in the old one.
AddedRepo(e, r, old, new, registers) ==
    IF new[r].present /\ ~old[r].present
    THEN LET d == new[r].output_dir
             scanned == IfLoaded(e, d, ScanRepo(e, r, d))
         IN  StartRepoWatcher(scanned, r, new[r], registers)
    ELSE e

\* patterns_changed
PatternsChanged(old_rc, new_rc) ==
    old_rc.include_patterns # new_rc.include_patterns \/ old_rc.path # new_rc.path

\* A repo in both configs.
ChangedRepo(e, r, old, new, registers) ==
    IF old[r].present /\ new[r].present
    THEN IF old[r].output_dir # new[r].output_dir
         THEN LET stopped == StopRepoWatcher(e, r)
                  pruned == IfLoaded(stopped, old[r].output_dir,
                                     RemoveRepoMirror(stopped, r, old[r].output_dir))
                  scanned == IfLoaded(pruned, new[r].output_dir,
                                      ScanRepo(pruned, r, new[r].output_dir))
              IN  StartRepoWatcher(scanned, r, new[r], registers)
         ELSE IF PatternsChanged(old[r], new[r])
         THEN LET stopped == StopRepoWatcher(e, r)
                  scanned == IfLoaded(stopped, new[r].output_dir,
                                      ScanRepo(stopped, r, new[r].output_dir))
              IN  StartRepoWatcher(scanned, r, new[r], registers)
         ELSE e
    ELSE e

\* full_scan(config, manifests): scan_repo over every repo whose output_dir
\* has a Manifest.
ScanConfigured(e, r, c) ==
    IF c[r].present THEN IfLoaded(e, c[r].output_dir, ScanRepo(e, r, c[r].output_dir)) ELSE e
FullScan(e, c) == ScanConfigured(ScanConfigured(e, RepoName, c), OtherRepo, c)

\* After a simple global move: the reconciliation scan, then every repo
\* watcher is stopped and one started for every repo of the new config.
Restarted(e, r, c, registers) ==
    IF c[r].present THEN StartRepoWatcher(StopRepoWatcher(e, r), r, c[r], registers)
    ELSE StopRepoWatcher(e, r)
AfterMove(e, c, registers) ==
    Restarted(Restarted(FullScan(e, c), RepoName, c, registers), OtherRepo, c, registers)

\* Reconcile the mirror watchers with the active output_dirs of the new
\* config, then drop the Manifests of output_dirs no longer in use.
ReconciledDir(e, d, c, registers) ==
    LET active == d \in ActiveOutputDirs(c)
        watched == IF e.mw[d].running /\ ~active THEN [e EXCEPT !.mw[d] = NoMirrorWatcher]
                   ELSE IF active /\ ~e.mw[d].running THEN StartMirrorWatcher(e, d, registers)
                   ELSE e
    IN  IF watched.mf[d].loaded /\ ~active THEN RemoveManifest(watched, d) ELSE watched
Reconciled(e, c, registers) ==
    ReconciledDir(ReconciledDir(e, "/out/1", c, registers), "/out/2", c, registers)


\* reload_config, from load_config to the dropped Manifests: the engine and
\* disk after it, the config that is active after it, and how it ended. mv
\* is what move_output_dir does, registers whether the OS lets the watchers
\* created in this reload register.
MoveResults == {"moved", "kept", "failed"}
Reload(mv, registers) ==
    LET old == config
        new == configFile.repos
        e0 == EngineNow
        simple == SimpleGlobalMove(old, new)
        prepared == IF simple THEN MovePrepared(e0, TheDir(old), TheDir(new), mv) ELSE e0
        e1 == IF simple THEN MoveLoaded(prepared, TheDir(old), TheDir(new)) ELSE e0
        e2 == RemovedRepo(RemovedRepo(e1, RepoName, old, new), OtherRepo, old, new)
        e3 == NewlyActive(NewlyActive(e2, "/out/1", old, new), "/out/2", old, new)
        e4 == AddedRepo(AddedRepo(e3, RepoName, old, new, registers), OtherRepo, old, new, registers)
        e5 == ChangedRepo(ChangedRepo(e4, RepoName, old, new, registers), OtherRepo, old, new, registers)
        e6 == IF simple THEN AfterMove(e5, new, registers) ELSE e5
        e7 == Reconciled(e6, new, registers)
        unloaded == \E d \in ActiveOutputDirs(new) \ ActiveOutputDirs(old) : e2.out[d].corrupt
    IN  IF ~configFile.valid
        THEN [e |-> e0, config |-> old, out |-> "failed", branch |-> "load_config"]
        ELSE IF simple /\ prepared.out[TheDir(new)].corrupt
        THEN [e |-> prepared, config |-> old, out |-> "failed", branch |-> "manifest_load"]
        ELSE [e |-> e7, config |-> new,
              out |-> IF unloaded \/ (simple /\ mv = "failed") THEN "failed"
                      ELSE IF ~registers THEN "unregistered" ELSE "ok",
              branch |-> IF unloaded THEN "manifest_load"
                         ELSE IF simple /\ mv = "failed" THEN "move_output_dir" ELSE "none"]

\* What the step leaves of the one-repo core's state.
coreVars == <<src, mir, ext, base, conf, clock, manifest, disk, lock, srcPending, srcBatch, srcSave,
              mirPending, mirBatch, mirSave, scanPc, scanManifest, scanTodo, userMirror,
              threadVars, cliVars, moved, shutdownVars, inputVars, siteVars>>

\* reload_config as the main loop runs it.
ReloadConfig(mv, registers) ==
    LET r == Reload(mv, registers)
    IN  /\ (SimpleGlobalMove(config, configFile.repos) /\ configFile.valid) \/ mv = "kept"
        /\ (mv = "moved" => outputs[TheDir(configFile.repos)] = EmptyDir)
        /\ watchers' = r.e.w /\ mirror_watchers' = r.e.mw
        /\ manifests' = r.e.mf /\ outputs' = r.e.out
        /\ config' = r.config
        /\ last' = Step("engine", "reload", <<>>, r.out, r.branch)

\* main_loop, SIGHUP pending: reload_config.
Sighup ==
    /\ \E mv \in MoveResults, registers \in BOOLEAN : ReloadConfig(mv, registers)
    /\ UNCHANGED <<coreVars, edits, configFile, changed, notified>>

\* main_loop: `if cw.has_changed() { self.reload_config() }`; has_changed
\* is changed.swap(false).
HasChangedPeek(flag) == [ret |-> flag, flag |-> flag]
HasChanged(flag) == [ret |-> flag, flag |-> FALSE]

\* The user saves the config file; the OS queues a Create/Modify event for
\* the ConfigWatcher's callback.
UserEditConfig(f) ==
    /\ edits < MaxEdits
    /\ edits' = edits + 1
    /\ configFile # f
    /\ configFile' = f
    /\ notified' = TRUE
    /\ last' = Step("user", "edit_config", <<>>, "none", "none")
    /\ UNCHANGED <<coreVars, config, watchers, mirror_watchers, manifests, outputs, changed>>

\* create_config_watcher's callback: changed.store(true).
ConfigEvent ==
    /\ notified
    /\ notified' = FALSE
    /\ changed' = TRUE
    /\ last' = Step("os", "config_event", <<>>, "none", "none")
    /\ UNCHANGED <<coreVars, edits, config, configFile, watchers, mirror_watchers, manifests, outputs>>

\* The Manifest file of an output_dir the engine does not use is damaged (it
\* no longer parses).
UserDamageManifest(d) ==
    /\ edits < MaxEdits
    /\ edits' = edits + 1
    /\ d \notin ActiveOutputDirs(config)
    /\ ~outputs[d].corrupt
    /\ outputs' = [outputs EXCEPT ![d].corrupt = TRUE]
    /\ last' = Step("user", "damage_manifest", <<>>, "none", "none")
    /\ UNCHANGED <<coreVars, config, configFile, watchers, mirror_watchers, manifests, changed, notified>>

\* start(): the Manifests of the active output_dirs are loaded, the initial
\* full scan runs into the empty output directories, the repo watchers and
\* mirror watchers start; the config file is the one start() read.
EngineStarted(c) ==
    LET blank == [w |-> [r \in Repos |-> NoWatcher],
                  mw |-> [d \in OutputDirs |-> NoMirrorWatcher],
                  mf |-> [d \in OutputDirs |-> IF d \in ActiveOutputDirs(c) THEN Loaded({})
                                               ELSE NotLoaded],
                  out |-> [d \in OutputDirs |-> EmptyDir]]
        e == Reconciled(AfterMove(blank, c, TRUE), c, TRUE)
    IN  /\ config = c /\ configFile = ValidConfig(c)
        /\ watchers = e.w /\ mirror_watchers = e.mw /\ manifests = e.mf /\ outputs = e.out
        /\ changed = FALSE /\ notified = FALSE

ReloadInit == CoreStarted(Keys, {}) /\ EngineRunning /\ \E c \in Configs : EngineStarted(c)

NextReload ==
    \/ \E c \in Configs : UserEditConfig(ValidConfig(c))
    \/ UserEditConfig(InvalidConfig)
    \/ \E d \in OutputDirs : UserDamageManifest(d)
    \/ Sighup

SpecReload == ReloadInit /\ [][NextReload]_vars


\* ------------------------------------------------------ claims on the reload
\* The step is a reload that went through without an error; r is a repo of
\* the old config that the new config no longer has / still has as it was.
ReloadedOk == last'.op = "reload" /\ last'.out = "ok"
Dropped(r) == config[r].present /\ ~config'[r].present
Kept(r) == config[r].present /\ config'[r] = config[r]
\* The keys of repo r the Manifest of output_dir d owns before the step.
OwnedUnder(r, d) ==
    {k \in ReloadKeys : manifests[d].loaded /\ k \in manifests[d].entries
                        /\ StartsWith(k, r \o <<"/">>)}

\* C23: after a reload in which repo r is no longer configured, whatever
\* else changed, r's RepoWatcher is not running, no loaded Manifest has a key
\* under r/, and every mirror file and base cache entry that was owned under
\* r/ is gone (it is in no output_dir where it was not before as another
\* file); the mirror files and entries of repos kept as they were are
\* untouched.
C23_DroppedRepoRemoved ==
    [][ReloadedOk =>
        \A r \in Repos :
            /\ Dropped(r) =>
                /\ ~watchers'[r].running
                /\ \A d \in OutputDirs : manifests'[d].loaded =>
                        ~\E k \in manifests'[d].entries : StartsWith(k, r \o <<"/">>)
                /\ \A d \in OutputDirs : \A k \in OwnedUnder(r, d) :
                        /\ k \notin outputs'[d].files /\ k \notin outputs'[d].bases
                        /\ \A d2 \in OutputDirs \ {d} :
                              /\ k \in outputs'[d2].files => k \in outputs[d2].files
                              /\ k \in outputs'[d2].bases => k \in outputs[d2].bases
            /\ Kept(r) =>
                \A d \in OutputDirs : \A k \in OwnedUnder(r, d) :
                    /\ k \in outputs[d].files => k \in outputs'[d].files
                    /\ k \in manifests'[d].entries]_vars


\* C24: after a reload, the running watcher of every repo that is in the old
\* and in the new config watches the path and uses the include and exclude
\* matchers of the new config; a repo whose output_dir stays and whose
\* patterns or path differ gets a new watcher.
C24_ReloadChangeDetection ==
    [][ReloadedOk =>
        \A r \in Repos :
            (config[r].present /\ config'[r].present /\ watchers'[r].running)
            => /\ watchers'[r].repo.path = config'[r].path
               /\ watchers'[r].repo.include_patterns = config'[r].include_patterns
               /\ watchers'[r].repo.exclude = config'[r].exclude]_vars


\* C25: a reload that fails (the config does not load, a Manifest of a new
\* output_dir does not load, the output directory cannot be moved) leaves
\* the active config, the running RepoWatchers and MirrorWatchers, the loaded
\* Manifests and the mirror files as they were.
C25_FailedReloadNoOp ==
    [][(last'.op = "reload" /\ last'.out = "failed") =>
        /\ config' = config
        /\ \A r \in Repos : watchers'[r].running = watchers[r].running
        /\ \A d \in OutputDirs :
            /\ mirror_watchers'[d].running = mirror_watchers[d].running
            /\ manifests'[d] = manifests[d]
            /\ outputs'[d].files = outputs[d].files]_vars


InStepWithConfig ==
    /\ {r \in Repos : watchers[r].running} = RepoNames(config)
    /\ {d \in OutputDirs : manifests[d].loaded} = ActiveOutputDirs(config)

treeVars == <<fsVars, manifest, disk, lock, srcWatcherVars, mirWatcherVars, scanVars, edits,
              threadVars, cliVars, moved, siteVars>>
watchedVars == <<treeVars, inputVars>>
reloadVars == <<config, configFile, watchers, mirror_watchers, manifests, outputs, changed, notified>>

\* The ctrlc handler start() registered: running.store(false).
ShutdownSignal ==
    /\ enginePc = "loop" /\ running
    /\ running' = FALSE
    /\ last' = Step("signal", "shutdown", <<>>, "none", "none")
    /\ UNCHANGED <<watchedVars, reloadVars, enginePc, mirStop, mirFinal>>

\* main_loop, one pass of the while body with nothing due: the loop
\* condition read running = true, the thread slept a second.
MainLoopIterate ==
    /\ enginePc = "loop" /\ running
    /\ last' = Step("engine", "iterate", <<>>, "none", "none")
    /\ UNCHANGED <<watchedVars, reloadVars, shutdownVars>>

\* main_loop, the loop condition reads running = false: the loop is left
\* and stop() is entered (which stores false once more).
MainLoopExit ==
    /\ enginePc = "loop" /\ ~running
    /\ enginePc' = "stop"
    /\ last' = Step("engine", "stop", <<>>, "none", "none")
    /\ UNCHANGED <<watchedVars, reloadVars, running, mirStop, mirFinal>>

\* stop(), the loop over self.watchers: RepoWatcher::cancel.
StopRepoWatchers == enginePc = "stop" /\ Cancel

\* stop(), the loop over self.mirror_watchers, entered once the repo
\* watchers are cancelled: MirrorWatcher::cancel sets stop ...
StopMirrorWatchers ==
    /\ enginePc = "stop" /\ cancelPc = "returned"
    /\ ~mirStop
    /\ mirStop' = TRUE
    /\ last' = Step("engine", "cancel_mirror", <<>>, "none", "none")
    /\ UNCHANGED <<watchedVars, reloadVars, running, enginePc, mirFinal>>

\* The MirrorWatcher's thread, a wake that finds stop unset and a flush due.
MirDebouncedFlush == ~mirStop /\ ~mirFinal /\ MirDrain

\* The MirrorWatcher's thread, a wake that finds stop set: the final
\* flush_mirror_events, then break.
MirFinalFlush ==
    /\ ~mirFinal /\ MirIdle
    /\ mirStop
    /\ mirFinal' = TRUE
    /\ mirBatch' = mirPending
    /\ mirPending' = NoEvents
    /\ last' = Step("mir", "drain", <<>>, "final", "none")
    /\ UNCHANGED <<fsVars, manifest, disk, lock, mirSave, srcWatcherVars, scanVars, edits,
                   threadVars, cliVars, moved, reloadVars, running, enginePc, mirStop, inputVars, siteVars>>

\* A join that returns whether or not the thread has.
MirExitedUnjoined == TRUE

\* The MirrorWatcher's thread has left its loop and returned.
MirExited == mirFinal /\ MirIdle

\* ... and joins the thread's handle; the maps are cleared, the config
\* watcher dropped, stop() returns to main_loop and main_loop to start(),
\* which returns Ok.
StopReturn ==
    /\ enginePc = "stop" /\ mirStop
    /\ MirExited
    /\ enginePc' = "returned"
    /\ last' = Step("engine", "returned", <<>>, "none", "none")
    /\ UNCHANGED <<watchedVars, reloadVars, running, mirStop, mirFinal>>

\* The engine with one repo and its output_dir, from main_loop to the
\* return of start(): the user on both trees, the two coalescing threads,
\* the shutdown signal and the engine's thread. The OS watchers are dropped
\* with their RepoWatcher and MirrorWatcher.
NextShutdown ==
    \/ \E k \in Keys, c \in Contents : cancelPc # "returned" /\ UserWriteSource(k, c)
    \/ \E k \in Keys : cancelPc # "returned" /\ UserDeleteSource(k)
    \/ \E k \in Keys, c \in Contents : enginePc # "returned" /\ UserWriteMirror(k, c)
    \/ \E k \in Keys : enginePc # "returned" /\ UserDeleteMirror(k)
    \/ SrcWait
    \/ SrcDebouncedFlush
    \/ SrcFinalFlush
    \/ \E k \in Keys : SrcApply(k)
    \/ SrcFlushEnd
    \/ MirDebouncedFlush
    \/ MirFinalFlush
    \/ \E k \in Keys : MirApply(k)
    \/ MirFlushEnd
    \/ ShutdownSignal
    \/ MainLoopIterate
    \/ MainLoopExit
    \/ StopRepoWatchers
    \/ CancelReturn
    \/ StopMirrorWatchers
    \/ StopReturn

\* Both threads are scheduled again after every sleep and a flush runs to
\* its end; the engine's thread is scheduled, and a join returns once the
\* thread has.
ShutdownFairness ==
    /\ WatcherFairness
    /\ WF_vars(MirFinalFlush) /\ WF_vars(\E k \in Keys : MirApply(k)) /\ WF_vars(MirFlushEnd)
    /\ WF_vars(MainLoopExit) /\ WF_vars(StopRepoWatchers) /\ WF_vars(StopMirrorWatchers)
    /\ WF_vars(StopReturn)

SpecShutdown == Init /\ [][NextShutdown]_vars /\ ShutdownFairness


\* start() has returned from main_loop.
StartReturned == enginePc = "returned"

PollConfig ==
    /\ enginePc = "loop"
    /\ changed' = HasChanged(changed).flag
    /\ enginePc' = IF HasChanged(changed).ret THEN "reload" ELSE "loop"
    /\ last' = Step("engine", "poll", <<>>, IF HasChanged(changed).ret THEN "changed" ELSE "none", "none")
    /\ UNCHANGED <<watchedVars, running, mirStop, mirFinal,
                   config, configFile, watchers, mirror_watchers, manifests, outputs, notified>>

\* main_loop, `self.reload_config()` after the flag was found set:
\* load_config reads the file as it is now, and the loop goes on.
PollReload ==
    /\ enginePc = "reload"
    /\ \E mv \in MoveResults, registers \in BOOLEAN : ReloadConfig(mv, registers)
    /\ enginePc' = "loop"
    /\ UNCHANGED <<watchedVars, running, mirStop, mirFinal, configFile, changed, notified>>

\* The configs the user switches between while the flag is looked at.
FlagConfigs == {c \in Configs : c[RepoName] = RepoConfig(RepoPath, <<"*.md">>, <<".git/">>, "/out/1")}

FlagInit == CoreStarted(Keys, {}) /\ EngineRunning /\ \E c \in FlagConfigs : EngineStarted(c)

\* A running engine whose config file the user saves: the OS delivers the
\* events to the ConfigWatcher's callback while the main loop polls.
NextFlag ==
    \/ \E c \in FlagConfigs : UserEditConfig(ValidConfig(c))
    \/ UserEditConfig(InvalidConfig)
    \/ ConfigEvent
    \/ PollConfig
    \/ PollReload

\* The OS delivers a queued event and the main loop wakes from its sleep;
\* reload_config returns. PollReload is enabled exactly while reload_config
\* is running and ends it, so its weak fairness is the condition that the
\* engine is not in reload_config for ever.
FlagFairness == WF_vars(ConfigEvent) /\ WF_vars(PollConfig) /\ []<>(enginePc # "reload")

SpecFlag == FlagInit /\ [][NextFlag]_vars /\ FlagFairness


\* The step before was a has_changed() that returned true.
PollFound == last.op = "poll" /\ last.out = "changed"

\* C28 (the config-changed flag is a lossless test-and-clear): has_changed
\* returns the flag's value and leaves it clear, so it returns true once per
\* set, and reload_config is entered exactly when it returned true; the
\* callback leaves the flag set wherever the main loop is, and a reload does
\* not clear it; a queued event sets the flag, a set flag is found by a later
\* has_changed, and a reload, which reads the file as it then is, follows.
C28_FlagLossless ==
    /\ [][last'.op = "poll" =>
            /\ (last'.out = "changed") = changed
            /\ ~changed'
            /\ (enginePc' = "reload") = changed]_vars
    /\ [][last'.op = "config_event" => changed']_vars
    /\ [][last'.op = "reload" => (changed' = changed /\ enginePc = "reload")]_vars
    /\ (notified ~> changed)
    /\ (changed ~> PollFound)
    /\ (PollFound ~> last.op = "reload")

\* The callback has set the flag again while the reload the cleared flag
\* triggered is still running.
C28_Witness == enginePc = "reload" /\ changed /\ last.op = "config_event" /\ ~notified


\* ------------------------------------------------------ resolve_repo_names
\* A name is the sequence of the pieces of its string; a path the sequence
\* of its components' names. The longest list of [[repos]] looked at.
MaxRepos == 3
Base == <<"base">>
Base2 == <<"base", "-", "2">>
Unnamed == <<"unnamed">>
RootPath == <<>>
UnsetVarPath == <<<<"$", "UNSET">>, Base>>
RepoPaths == {<<<<"a">>, Base>>, <<<<"b">>, Base>>, <<<<"c">>, Base2>>, RootPath, UnsetVarPath}

\* RawRepo: `path`, and `name` if the table has one.
RawRepos == [path : RepoPaths, name : {<<>>, <<Base2>>}]

\* expand_path: shellexpand::full fails on a variable that is not set.
ExpandPath(p) == IF p = UnsetVarPath THEN [ok |-> FALSE, path |-> <<>>] ELSE [ok |-> TRUE, path |-> p]

\* Path::file_name: the last component, if the path has one.
FileName(p) == IF p = <<>> THEN <<>> ELSE <<p[Len(p)]>>

\* format!("{}", count) for the counts a list can reach.
Decimal(n) == <<"0", "1", "2", "3", "4", "5", "6", "7", "8", "9">>[n + 1]

\* format!("{}-{}", base_name, count).
Suffixed(base_name, count) == base_name \o <<"-", Decimal(count)>>

\* repo.name, else the path's file_name, else "unnamed".
BaseNameOf(repo, path) ==
    IF repo.name # <<>> THEN repo.name[1]
    ELSE IF FileName(path) # <<>> THEN FileName(path)[1]
    ELSE Unnamed

BaseNames == {Base, Base2, Unnamed}

\* resolve_repo_names before its loop: `seen` has no entry (a count of 0).
ResolveStart == [seen |-> [n \in BaseNames |-> 0], result |-> <<>>, err |-> FALSE]

\* The loop is over: every repo has its name, or expand_path's `?` returned.
Resolved == resolved.err \/ Len(resolved.result) = Len(raw_repos)

\* resolve_repo_names, one pass of the loop.
ResolveRepoName ==
    /\ raw_repos # <<>> /\ ~Resolved
    /\ LET repo == raw_repos[Len(resolved.result) + 1]
           path == ExpandPath(repo.path)
           base_name == BaseNameOf(repo, path.path)
           count == resolved.seen[base_name] + 1
           name == IF count > 1 THEN Suffixed(base_name, count) ELSE base_name
       IN  /\ resolved' = IF ~path.ok THEN [resolved EXCEPT !.err = TRUE]
                          ELSE [seen |-> [resolved.seen EXCEPT ![base_name] = count],
                                result |-> Append(resolved.result, name),
                                err |-> FALSE]
           /\ last' = Step("config", "resolve_repo_name", <<>>,
                           IF path.ok THEN "ok" ELSE "failed", IF path.ok /\ count > 1 THEN "collision" ELSE "none")
    /\ UNCHANGED <<treeVars, reloadVars, shutdownVars, raw_repos, matcherIn, matcherOut>>


\* load_config has read a config file with one to MaxRepos [[repos]] tables
\* and parse_config calls resolve_repo_names on them.
NamesInit ==
    /\ CoreStarted(Keys, {}) /\ EngineUnused /\ EngineStarts
    /\ matcherIn = <<>> /\ matcherOut = <<>>
    /\ raw_repos \in UNION {[1..n -> RawRepos] : n \in 1..MaxRepos}
    /\ resolved = ResolveStart

NextNames == ResolveRepoName

SpecNames == NamesInit /\ [][NextNames]_vars

\* The names of a finished, successful resolve_repo_names are pairwise
\* distinct.
Distinct(names) == \A i, j \in 1..Len(names) : i # j => names[i] # names[j]

\* Two repos whose base names are the same and that are alone with it get
\* `base` and `base-2`.
SameBaseSuffixed ==
    \A i, j \in 1..Len(resolved.result) :
        LET bi == BaseNameOf(raw_repos[i], ExpandPath(raw_repos[i].path).path)
            bj == BaseNameOf(raw_repos[j], ExpandPath(raw_repos[j].path).path)
        IN  (i < j /\ bi = bj /\ \A h \in 1..(j - 1) : h # i =>
                BaseNameOf(raw_repos[h], ExpandPath(raw_repos[h].path).path) # bi)
            => (resolved.result[i] = bi /\ resolved.result[j] = Suffixed(bi, 2))

\* C29 (repo names are unique): whatever the list of configured repos, with
\* or without explicit names, the names validation has produced are
\* pairwise distinct, and two repos with the same base name are called
\* `base` and `base-2`.
C29_RepoNamesUnique ==
    (Resolved /\ ~resolved.err) => (Distinct(resolved.result) /\ SameBaseSuffixed)

\* The half of C29 that holds: the suffix given to the second repo of a base name.
C29_SameBaseSuffixed == (Resolved /\ ~resolved.err) => SameBaseSuffixed


\* ------------------------------------------------------------ should_mirror
\* A relative path is the sequence of its components, a component its stem
\* and its extension; "." is the current directory.
Dot == <<".", "">>
DocsComp == <<"docs", "">>
ModulesComp == <<"node_modules", "">>
KeepMd == <<"keep", ".md">>
MainRs == <<"main", ".rs">>
MaxDepth == 2
DirChains == UNION {[1..n -> {DocsComp, ModulesComp}] : n \in 0..MaxDepth}
RelPaths == {d \o <<f>> : d \in DirChains, f \in {KeepMd, MainRs}} \cup {<<Dot>>, <<Dot, KeepMd>>}

\* A compiled glob: a pattern without a slash is tried on the last
\* component (the file or directory name at any depth), one with a slash on
\* the whole path; `*` stands for any stem.
Glob(anchored, comps) == [anchored |-> anchored, comps |-> comps]
CompMatches(pat, comp) == pat[2] = comp[2] /\ (pat[1] = "*" \/ pat[1] = comp[1])
GlobMatches(g, path) ==
    IF g.anchored
    THEN Len(path) = Len(g.comps) /\ \A i \in 1..Len(path) : CompMatches(g.comps[i], path[i])
    ELSE path # <<>> /\ CompMatches(g.comps[1], path[Len(path)])

\* One line of the exclude list as GitignoreBuilder::add_line compiles it:
\* a leading `!` makes it a whitelist line, a trailing `/` a directory-only one.
ExcludeLine(whitelist, is_only_dir, glob) ==
    [whitelist |-> whitelist, is_only_dir |-> is_only_dir, glob |-> glob]
ExcludeLines ==
    {ExcludeLine(FALSE, TRUE, Glob(FALSE, <<ModulesComp>>)),          \* node_modules/
     ExcludeLine(FALSE, TRUE, Glob(FALSE, <<DocsComp>>)),             \* docs/
     ExcludeLine(FALSE, FALSE, Glob(FALSE, <<MainRs>>)),              \* main.rs
     ExcludeLine(TRUE, FALSE, Glob(TRUE, <<DocsComp, KeepMd>>)),      \* !docs/keep.md
     ExcludeLine(TRUE, FALSE, Glob(FALSE, <<<<"*", ".md">>>>))}       \* !*.md
MaxLines == 2
ExcludeLists == UNION {[1..n -> ExcludeLines] : n \in 0..MaxLines}

\* The include GlobSets: compile_include puts `**/` before a pattern
\* without a slash; the list is never empty (the defaults stand in).
IncludeGlobs == {{Glob(FALSE, <<<<"*", ".md">>>>)},
                 {Glob(FALSE, <<<<"*", ".rs">>>>)},
                 {Glob(FALSE, <<<<"*", ".md">>>>), Glob(FALSE, <<<<"*", ".rs">>>>)}}

\* Gitignore::matched: of the lines whose glob matches the path (a
\* directory-only line only if the path is a directory), the last one decides.
Matched(exclude, path, is_dir) ==
    LET hits == {i \in 1..Len(exclude) :
                    GlobMatches(exclude[i].glob, path) /\ (~exclude[i].is_only_dir \/ is_dir)}
        lastHit == CHOOSE i \in hits : \A j \in hits : j <= i
    IN  IF hits = {} THEN "None"
        ELSE IF exclude[lastHit].whitelist THEN "Whitelist" ELSE "Ignore"

\* Gitignore::matched_path_or_any_parents: the path itself, then its parents
\* from the nearest up, each as a directory; the first that is matched at
\* all (ignored or whitelisted) is the answer.
RECURSIVE MatchedPathOrAnyParents(_, _, _)
MatchedPathOrAnyParents(exclude, path, is_dir) ==
    IF path = <<>> THEN "None"
    ELSE LET m == Matched(exclude, path, is_dir)
         IN  IF m # "None" THEN m
             ELSE MatchedPathOrAnyParents(exclude, SubSeq(path, 1, Len(path) - 1), TRUE)

\* normalize_path: a leading "./" is stripped; "." is the empty path.
normalize_path(rel_path) ==
    IF rel_path = <<Dot>> THEN <<>>
    ELSE IF rel_path # <<>> /\ rel_path[1] = Dot THEN Tail(rel_path) ELSE rel_path

\* should_mirror: exclude first, then include.
should_mirror(file_rel_path, exclude, include) ==
    LET normalized == normalize_path(file_rel_path)
    IN  IF normalized = <<>> THEN FALSE
        ELSE IF MatchedPathOrAnyParents(exclude, normalized, FALSE) = "Ignore" THEN FALSE
        ELSE \E g \in include : GlobMatches(g, normalized)

\* should_descend: a directory is walked unless it is ignored itself.
should_descend(dir_rel_path, exclude) ==
    LET normalized == normalize_path(dir_rel_path)
    IN  normalized = <<>> \/ Matched(exclude, normalized, TRUE) # "Ignore"

YesNo(b) == IF b THEN "yes" ELSE "no"
NotAsked == [should_mirror |-> "unset", scan |-> "unset", flush |-> "unset"]

\* A caller asks should_mirror about the path.
ShouldMirrorCall ==
    /\ matcherIn # <<>> /\ matcherOut.should_mirror = "unset"
    /\ matcherOut' = [matcherOut EXCEPT !.should_mirror =
                        YesNo(should_mirror(matcherIn.path, matcherIn.exclude, matcherIn.include))]
    /\ last' = Step("matcher", "should_mirror", <<>>, matcherOut'.should_mirror, "none")
    /\ UNCHANGED <<treeVars, reloadVars, shutdownVars, raw_repos, resolved, matcherIn>>

\* scan_repo with a regular file at the path: WalkDir's filter_entry asks
\* should_descend of every directory above it, the loop should_mirror of
\* the file. The walk's paths have no "./".
ScanRepoVisit ==
    /\ matcherIn # <<>> /\ matcherOut.scan = "unset"
    /\ matcherIn.path[1] # Dot
    /\ LET path == matcherIn.path
           walked == \A n \in 1..(Len(path) - 1) : should_descend(SubSeq(path, 1, n), matcherIn.exclude)
       IN  /\ matcherOut' = [matcherOut EXCEPT !.scan =
                                YesNo(walked /\ should_mirror(path, matcherIn.exclude, matcherIn.include))]
           /\ last' = Step("scan", "visit", <<>>, matcherOut'.scan, IF walked THEN "walked" ELSE "filtered")
    /\ UNCHANGED <<treeVars, reloadVars, shutdownVars, raw_repos, resolved, matcherIn>>

\* flush_source_events with a Created or Modified event for the path.
FlushSourceEvent ==
    /\ matcherIn # <<>> /\ matcherOut.flush = "unset"
    /\ matcherIn.path[1] # Dot
    /\ matcherOut' = [matcherOut EXCEPT !.flush =
                        YesNo(should_mirror(matcherIn.path, matcherIn.exclude, matcherIn.include))]
    /\ last' = Step("src", "flush_event", <<>>, matcherOut'.flush, "none")
    /\ UNCHANGED <<treeVars, reloadVars, shutdownVars, raw_repos, resolved, matcherIn>>

\* A repo's compiled patterns and a relative path in it.
MatcherInit ==
    /\ CoreStarted(Keys, {}) /\ EngineUnused /\ EngineStarts
    /\ raw_repos = <<>> /\ resolved = <<>>
    /\ matcherIn \in [path : RelPaths, exclude : ExcludeLists, include : IncludeGlobs]
    /\ matcherOut = NotAsked

NextMatcher == ShouldMirrorCall \/ ScanRepoVisit \/ FlushSourceEvent

SpecMatcher == MatcherInit /\ [][NextMatcher]_vars

\* An exclude pattern (a line that is not a whitelist line) matches the
\* path itself, a file, or one of its ancestor directories.
ExcludePatternMatches(path, exclude) ==
    \E i \in 1..Len(exclude), n \in 1..Len(path) :
        /\ ~exclude[i].whitelist
        /\ GlobMatches(exclude[i].glob, SubSeq(path, 1, n))
        /\ (n < Len(path) \/ ~exclude[i].is_only_dir)

NoWhitelistLine(exclude) == \A i \in 1..Len(exclude) : ~exclude[i].whitelist

Mirrored == matcherOut.should_mirror = "yes" \/ matcherOut.scan = "yes" \/ matcherOut.flush = "yes"

\* C30 (matcher ordering): if an exclude pattern matches the path or one of
\* its ancestor directories, should_mirror returns false whatever the
\* include patterns, and neither a scan nor a watcher flush mirrors the file.
C30_ExcludeWins ==
    ExcludePatternMatches(normalize_path(matcherIn.path), matcherIn.exclude) => ~Mirrored

\* C30 where the exclude list has no `!` line.
C30_ExcludeWinsPlain ==
    (/\ NoWhitelistLine(matcherIn.exclude)
     /\ ExcludePatternMatches(normalize_path(matcherIn.path), matcherIn.exclude)) => ~Mirrored


\* ============================================================ I/O errors
\* Which file-system call of a linker operation fails: none; the first one
\* that can fail (a hash_file, fs::copy, fs::read_to_string or
\* fs::remove_file before anything is written); or the base-cache call
\* (write_base, remove_base), after the files have been written.
Faults == {"none", "first", "write_base"}

\* The branches of sync_file and propagate_delete that write the base cache.
BaseWriting == {"new_file", "claim", "refresh", "mirror_to_source", "source_to_mirror", "merged",
                "conflict_keep_source", "conflict_keep_mirror", "delete_mirror", "delete_source"}

\* What is left of a linker call r, started on Manifest man, when the call
\* `fault` fails and `?` returns the error: the effects that precede the
\* failing call in the branch taken. Every branch writes the files, then
\* the base cache, then the Manifest entry; the refresh branch of sync_file
\* inserts the entry first and writes the base cache after.
Failing(r, man, fault) ==
    IF fault = "first" /\ r.branch \notin {"source_missing", "not_in_manifest"}
    THEN [Unchanged(man) EXCEPT !.out = "Err", !.branch = r.branch]
    ELSE IF fault = "write_base" /\ r.branch \in BaseWriting
    THEN [r EXCEPT !.base = base,
                   !.man = IF r.branch = "refresh" THEN r.man ELSE man,
                   !.out = "Err"]
    ELSE r

\* scan_repo's count of one sync_file result, Err included.
CountedResult(res, out) == IF out = "Err" THEN [res EXCEPT !.errors = @ + 1] ELSE Counted(res, out)

\* prune_stale where fs::remove_file fails on the mirror files `failing`:
\* the error is logged and the loop continues with the next entry.
PruneStaleFailing(man, failing) ==
    LET stale == Stale(man) \ failing
    IN  [mir |-> [k \in Universe |-> IF k \in stale /\ mir[k].kind = "file" THEN Absent ELSE mir[k]],
         base |-> [k \in Universe |-> IF k \in stale THEN Absent ELSE base[k]],
         man |-> [k \in Universe |-> IF k \in stale THEN NoEntry ELSE man[k]],
         removed |-> {k \in stale : mir[k].kind = "file"},
         pruned |-> Cardinality(stale)]

\* main_loop, periodic rescan: the Manifest is cloned, full_scan starts
\* with a zeroed ScanResult.
FaultScanBegin ==
    /\ scanPc = "idle"
    /\ lock = "none"
    /\ scanManifest' = manifest
    /\ scanTodo' = Universe
    /\ scanPc' = "walk"
    /\ result' = ZeroResult
    /\ last' = Step("scan", "clone", <<>>, "none", "none")
    /\ UNCHANGED <<fsVars, manifest, disk, lock, srcWatcherVars, mirWatcherVars, edits, threadVars,
                   scanRepeat, moved, engineVars>>

\* scan_repo, the walk: one directory entry, whose sync_file may fail.
FaultyScanFile(k) ==
    /\ scanPc = "walk" /\ k \in scanTodo
    /\ scanTodo' = scanTodo \ {k}
    /\ \E newer \in BOOLEAN, t \in clock..MaxStamp, fault \in Faults :
        LET walked == src[k].kind = "file" /\ ShouldMirror(k)
            r == IF walked THEN Failing(SyncFile(SourcePath(k), k, scanManifest, newer, t), scanManifest, fault)
                 ELSE [Unchanged(scanManifest) EXCEPT !.out = "none", !.branch = "not_walked"]
        IN  /\ (r.branch \in {"conflict_keep_source", "conflict_keep_mirror"} \/ (newer /\ t = clock))
            /\ (walked \/ fault = "none")
            /\ src' = r.src /\ mir' = r.mir /\ ext' = r.ext /\ base' = r.base /\ conf' = r.conf
            /\ userMirror' = StillUserMirror(r.mir)
            /\ clock' = IF r.out = "Conflict" THEN t ELSE clock
            /\ scanManifest' = r.man
            /\ result' = CountedResult(result, r.out)
            /\ srcPending' = Enqueue(srcPending, k, r.sev)
            /\ mirPending' = Enqueue(mirPending, k, r.mev)
            /\ last' = Step("scan", IF walked THEN "sync_file" ELSE "walk", k, r.out, r.branch)
    /\ UNCHANGED <<manifest, disk, lock, srcBatch, srcSave, mirBatch, mirSave, scanPc,
                   edits, threadVars, scanRepeat, moved, engineVars>>

\* scan_repo, after the walk: prune_stale, in which removing some mirror
\* files may fail, then manifest.save.
FaultyScanPrune ==
    /\ scanPc = "walk" /\ scanTodo = {}
    /\ \E failing \in SUBSET {k \in Stale(scanManifest) : mir[k].kind = "file"} :
        LET r == PruneStaleFailing(scanManifest, failing)
        IN  /\ mir' = r.mir /\ base' = r.base
            /\ userMirror' = StillUserMirror(r.mir)
            /\ scanManifest' = r.man
            /\ disk' = r.man
            /\ result' = [result EXCEPT !.pruned = r.pruned]
            /\ mirPending' = [k \in Universe |-> IF k \in r.removed THEN "Deleted" ELSE mirPending[k]]
            /\ last' = Step("scan", "prune_stale", <<>>,
                            IF failing # {} THEN "failed" ELSE IF r.pruned > 0 THEN "pruned" ELSE "none",
                            "none")
    /\ scanPc' = "writeback"
    /\ UNCHANGED <<src, ext, conf, clock, manifest, lock, srcWatcherVars, mirBatch, mirSave,
                   scanTodo, edits, threadVars, scanRepeat, moved, engineVars>>

\* main_loop, after full_scan: the clone is stored back; the result is logged.
FaultScanEnd ==
    /\ scanPc = "writeback"
    /\ lock = "none"
    /\ manifest' = scanManifest
    /\ scanManifest' = EmptyManifest
    /\ scanPc' = "idle"
    /\ last' = Step("scan", "writeback", <<>>, "none", "none")
    /\ UNCHANGED <<fsVars, disk, lock, srcWatcherVars, mirWatcherVars, scanTodo, edits, threadVars,
                   cliVars, moved, engineVars>>

\* flush_source_events, one event of the batch, whose linker call may fail:
\* the error is logged and the loop goes on.
FaultySrcApply(k) ==
    /\ srcBatch[k] # "none"
    /\ lock \in {"none", "src"}
    /\ lock' = "src"
    /\ srcBatch' = [srcBatch EXCEPT ![k] = "none"]
    /\ \E newer \in BOOLEAN, t \in clock..MaxStamp, fault \in Faults :
        LET called == srcBatch[k] = "Deleted" \/ ShouldMirror(k)
            r == IF srcBatch[k] = "Deleted" THEN Failing(PropagateDelete(k, manifest), manifest, fault)
                 ELSE IF ShouldMirror(k)
                      THEN Failing(SyncFile(SourcePath(k), k, manifest, newer, t), manifest, fault)
                 ELSE Unchanged(manifest)
            op == IF srcBatch[k] = "Deleted" THEN "propagate_delete" ELSE "sync_file"
        IN  /\ (r.branch \in {"conflict_keep_source", "conflict_keep_mirror"} \/ (newer /\ t = clock))
            /\ (called \/ fault = "none")
            /\ src' = r.src /\ mir' = r.mir /\ ext' = r.ext /\ base' = r.base /\ conf' = r.conf
            /\ userMirror' = StillUserMirror(r.mir)
            /\ clock' = IF r.out = "Conflict" THEN t ELSE clock
            /\ manifest' = r.man
            /\ srcSave' = (srcSave \/ r.out \in {"true", "Copied", "Merged"})
            /\ srcPending' = Enqueue(srcPending, k, r.sev)
            /\ mirPending' = Enqueue(mirPending, k, r.mev)
            /\ last' = Step("src", op, k, r.out, r.branch)
    /\ UNCHANGED <<disk, mirBatch, mirSave, scanVars, edits, threadVars, cliVars, moved, engineVars>>

\* A running engine with a repo of two files, whose file-system calls may
\* fail: the user on the source tree, the RepoWatcher's flushes and the
\* periodic rescan, in the schedules in which a rescan and a flush do not
\* overlap.
FaultInit == \E owned \in SUBSET TreeKeys : Started(TreeKeys, owned)

NextFaults ==
    \/ \E k \in TreeKeys, c \in Contents : UserWriteSource(k, c)
    \/ \E k \in TreeKeys : UserDeleteSource(k)
    \/ scanPc = "idle" /\ SrcDrain
    \/ \E k \in TreeKeys : FaultySrcApply(k)
    \/ SrcFlushEnd
    \/ SrcIdle /\ FaultScanBegin
    \/ \E k \in TreeKeys : FaultyScanFile(k)
    \/ FaultyScanPrune
    \/ FaultScanEnd

SpecFaults == FaultInit /\ [][NextFaults]_vars


\* ------------------------------------------------- claims on I/O errors
\* The step is a linker call of the scan / of the flush that failed.
ScanSyncFailed == last'.actor = "scan" /\ last'.op = "sync_file" /\ last'.out = "Err"
ScanPruneFailed == last'.actor = "scan" /\ last'.op = "prune_stale" /\ last'.out = "failed"
FlushFailed == last'.actor = "src" /\ last'.out = "Err"

\* A failed call leaves the rest of the scan or of the batch to be done:
\* the walk goes on with the files not yet visited, prune_stale prunes every
\* stale entry whose mirror could be removed, the flush keeps its other events.
RestProcessed ==
    /\ ScanSyncFailed => (scanPc' = "walk" /\ scanTodo' = scanTodo \ {last'.key})
    /\ ScanPruneFailed =>
         (/\ scanPc' = "writeback"
          /\ \A k \in Stale(scanManifest) :
                (mir'[k].kind # "file") => ~scanManifest'[k].present)
    /\ FlushFailed =>
         (/\ lock' = "src"
          /\ \A j \in Universe : j # last'.key => srcBatch'[j] = srcBatch[j])

\* C31 (per-file error isolation): a sync_file or a deletion propagation
\* that fails for one file during a scan adds one to the scan's errors
\* counter, and the other files of the scan or of the flush's batch are
\* still processed.
C31_ErrorIsolation ==
    [][/\ RestProcessed
       /\ (ScanSyncFailed \/ ScanPruneFailed) => result'.errors = result.errors + 1]_vars

\* C31 without the count of a failed prune.
C31_RestProcessed ==
    [][RestProcessed /\ (ScanSyncFailed => result'.errors = result.errors + 1)]_vars


\* C38 (sync_file is atomic on the Manifest under errors): a sync_file that
\* returns an error leaves the Manifest it was called on exactly as it was.
C38_ManifestAtomicOnError ==
    [][(last'.op = "sync_file" /\ last'.out = "Err")
         => (manifest' = manifest /\ scanManifest' = scanManifest)]_vars

\* C38 in every branch of sync_file but the refresh of an entry whose two
\* files already agree.
C38_AtomicButRefresh ==
    [][(last'.op = "sync_file" /\ last'.out = "Err" /\ last'.branch # "refresh")
         => (manifest' = manifest /\ scanManifest' = scanManifest)]_vars


\* ------------------------------------------------ a repo root that is gone
\* A scan_repo that walks and prunes whatever the repo path is.
is_dir_unchecked == TRUE

\* scan_repo: repo_path.is_dir().
is_dir == repoRoot = "dir"

\* The user removes the repo's directory with everything in it, between two
\* runs of the sync command.
UserRemoveRepo ==
    /\ scanPc = "idle" /\ repoRoot = "dir" /\ edits < MaxEdits
    /\ repoRoot' = "missing"
    /\ src' = [k \in Universe |-> Absent]
    /\ edits' = edits + 1
    /\ last' = Step("user", "remove_repo", <<>>, "none", "none")
    /\ UNCHANGED <<mir, ext, base, conf, clock, userMirror, manifest, disk, lock, srcWatcherVars,
                   mirWatcherVars, scanVars, threadVars, cliVars, moved, reloadVars, shutdownVars,
                   inputVars, mirDirs, flushedKeys, lockVars, rehomeVars>>

\* The user creates the directory again, empty.
UserRestoreRepo ==
    /\ scanPc = "idle" /\ repoRoot = "missing" /\ edits < MaxEdits
    /\ repoRoot' = "dir"
    /\ edits' = edits + 1
    /\ last' = Step("user", "restore_repo", <<>>, "none", "none")
    /\ UNCHANGED <<fsVars, manifest, disk, lock, srcWatcherVars, mirWatcherVars, scanVars,
                   threadVars, cliVars, moved, reloadVars, shutdownVars, inputVars, mirDirs, flushedKeys, lockVars, rehomeVars>>

\* main loads the Manifest and calls scan_repo, which returns its zeroed
\* result at once when the repo path is not a directory: no walk, no
\* prune_stale, no manifest.save.
ScanRepoBegin ==
    /\ scanPc = "idle"
    /\ manifest' = disk
    /\ result' = ZeroResult
    /\ scanRepeat' = (last.op = "summary")
    /\ IF is_dir
       THEN /\ scanTodo' = Universe
            /\ scanPc' = "walk"
            /\ last' = Step("sync", "load", <<>>, "none", "none")
       ELSE /\ scanTodo' = {}
            /\ scanPc' = "writeback"
            /\ last' = Step("sync", "scan_repo", <<>>, "none", "not_a_directory")
    /\ UNCHANGED <<fsVars, disk, lock, srcWatcherVars, mirWatcherVars, scanManifest, edits,
                   threadVars, moved, engineVars>>

NextRoot ==
    \/ UserRemoveRepo
    \/ UserRestoreRepo
    \/ ScanRepoBegin
    \/ \E k \in SyncKeys : SyncWalk(k)
    \/ SyncPrune
    \/ SyncSummary

SpecRoot == SyncInit /\ [][NextRoot]_vars

\* What the sync command leaves behind: the Manifest file, the mirror tree
\* and the base cache.
Mirrored32 == <<disk, mir, base, ext, conf>>

\* C32: a scan_repo that finds the repo's source root not to be a directory
\* returns an all-zero result and changes nothing: from the repo's removal to
\* the end of the command no Manifest entry is removed, no mirror or
\* base-cache file is deleted and nothing is pruned.
C32_MissingRootHarmless ==
    [][(repoRoot = "missing" /\ last'.actor = "sync")
        => /\ UNCHANGED Mirrored32
           /\ manifest' \in {disk, EmptyManifest}
           /\ result' = ZeroResult
           /\ last'.op \in {"scan_repo", "summary"}]_vars

\* The scan has just skipped a missing repo whose files are in the Manifest
\* with their mirror files in place.
C32_Witness ==
    /\ last.op = "scan_repo" /\ last.branch = "not_a_directory"
    /\ result = ZeroResult
    /\ \E k \in TreeKeys : manifest[k].present /\ mir[k].kind = "file" /\ base[k].kind = "file"


\* ------------------------------------------- directories of the mirror tree
\* The repo root as the watcher names it (rel_path ""), a file at the top of
\* the repo and one in docs/; <output_dir>/repo and <output_dir>/repo/docs.
RootKey == KeyOf(RepoName, <<>>)
RootFile == KeyOf(RepoName, <<"a", ".md">>)
PruneFiles == {RootFile, DocsFile}
PruneKeys == {RootKey, DocsDir} \cup PruneFiles
MirrorDirs == {RepoName, DocsDir}

\* Path::parent, <<>> being the output_dir.
Parent(p) ==
    LET slashes == {i \in 1..Len(p) : p[i] = "/"}
    IN  IF slashes = {} THEN <<>>
        ELSE SubSeq(p, 1, (CHOOSE i \in slashes : \A j \in slashes : j <= i) - 1)

\* The directories fs::create_dir_all(mirror.parent()) makes sure of.
Ancestors(k) == {d \in MirrorDirs : Under(k, d)}

\* What is under directory d in the mirror tree.
FilesUnder(d, files) == {k \in DOMAIN files : files[k].kind # "absent" /\ Under(k, d)}

\* is_dir_empty: read_dir yields no entry (false when read_dir fails).
is_dir_empty(d, files, dirs) ==
    d \in dirs /\ FilesUnder(d, files) = {} /\ ~\E e \in dirs : Under(e, d)

\* prune_empty_parents(start, stop_at)
RECURSIVE prune_empty_parents(_, _, _, _)
prune_empty_parents(current, stop_at, files, dirs) ==
    IF current # stop_at /\ Under(current, stop_at) /\ is_dir_empty(current, files, dirs)
    THEN prune_empty_parents(Parent(current), stop_at, files, dirs \ {current})
    ELSE dirs

\* prune_empty_dirs(root): bottom-up, every empty directory below root.
prune_empty_dirs(root, files, dirs) ==
    dirs \ {d \in dirs : Under(d, root) /\ FilesUnder(d, files) = {}}

\* output_dir.join(repo_name).join(dir_rel_path)
MirrorDir(repo, dirRel) == IF dirRel = <<>> THEN repo ELSE KeyOf(repo, dirRel)

\* The mirror's directories after propagate_delete returned r for key k.
DirsAfterDelete(k, r) ==
    IF r.out = "true" THEN prune_empty_parents(Parent(k), RepoName, r.mir, mirDirs) ELSE mirDirs

\* The mirror's directories after remove_dir_mirrors(repo_name, dir_rel_path).
DirsAfterRemoveDir(dirRel, r) ==
    LET mirror_dir == MirrorDir(RepoName, dirRel)
        below == IF mirror_dir \in mirDirs THEN prune_empty_dirs(mirror_dir, r.mir, mirDirs)
                 ELSE mirDirs
        self == IF is_dir_empty(mirror_dir, r.mir, below) THEN below \ {mirror_dir} ELSE below
    IN  prune_empty_parents(Parent(mirror_dir), RepoName, r.mir, self)

\* The mirror's directories after sync_file returned r for key k.
DirsAfterSync(k, r) ==
    IF mir[k].kind = "absent" /\ r.mir[k].kind # "absent" THEN mirDirs \cup Ancestors(k)
    ELSE mirDirs

\* The mirror's directories after prune_stale returned r.
DirsAfterPrune(r) ==
    IF r.pruned > 0 /\ RepoName \in mirDirs THEN prune_empty_dirs(RepoName, r.mir, mirDirs)
    ELSE mirDirs

\* start() has scanned the repo: the directories of the mirrored files
\* exist; so may others a user made or an earlier run left.
PruneInit ==
    \E owned \in SUBSET PruneFiles, dirs \in SUBSET MirrorDirs :
        /\ CoreStarted(PruneKeys, owned) /\ EngineUnused /\ InputsUnused
        /\ running = TRUE /\ enginePc = "loop" /\ mirStop = FALSE /\ mirFinal = FALSE
        /\ repoRoot = "dir"
        /\ \A k \in owned : Ancestors(k) \subseteq dirs
        /\ \A d \in dirs : Ancestors(d) \subseteq dirs
        /\ mirDirs = dirs /\ flushedKeys = {}
        /\ mutex = [m \in Mutexes |-> "none"] /\ pc = [t \in Threads |-> AtLoop]
        /\ reloading = NotReloading /\ repoPending = {}

\* The user removes the repo's directory with everything in it (or moves it
\* away). Depending on the platform the watcher's backend reports the
\* removal of the watched directory itself (rootEvent), classified
\* DirDeleted with the empty rel_path, and the removal of each file (each).
UserRemoveRoot(rootEvent, each) ==
    /\ repoRoot = "dir" /\ edits < MaxEdits
    /\ repoRoot' = "missing"
    /\ src' = [k \in Universe |-> Absent]
    /\ srcPending' = [k \in Universe |->
                        IF k = RootKey /\ rootEvent THEN "DirDeleted"
                        ELSE IF each /\ src[k].kind = "file" THEN "Deleted"
                        ELSE srcPending[k]]
    /\ edits' = edits + 1
    /\ last' = Step("user", "remove_repo", RootKey, "none", "none")
    /\ UNCHANGED <<mir, ext, base, conf, clock, userMirror, manifest, disk, lock, srcBatch, srcSave,
                   mirWatcherVars, scanVars, threadVars, cliVars, moved, reloadVars, shutdownVars,
                   inputVars, mirDirs, flushedKeys, lockVars, rehomeVars>>

\* flush_source_events, one event of the batch, with what the call does to
\* the mirror's directories.
SrcApplyDirs(k) ==
    /\ srcBatch[k] # "none"
    /\ lock \in {"none", "src"}
    /\ lock' = "src"
    /\ srcBatch' = [srcBatch EXCEPT ![k] = "none"]
    /\ \E newer \in BOOLEAN, t \in clock..MaxStamp :
        LET dir == srcBatch[k] = "DirDeleted"
            deleted == srcBatch[k] = "Deleted"
            synced == ~dir /\ ~deleted /\ ShouldMirror(k)
            r == IF deleted THEN PropagateDelete(k, manifest)
                 ELSE IF dir THEN RemoveDirMirrors(RepoName, RelOf(RepoName, k), manifest)
                 ELSE IF synced THEN SyncFile(SourcePath(k), k, manifest, newer, t)
                 ELSE Unchanged(manifest)
            unlinked == IF dir THEN DirMirrorsRemoved(RepoName, RelOf(RepoName, k), manifest) ELSE {}
            op == IF deleted THEN "propagate_delete"
                  ELSE IF dir THEN "remove_dir_mirrors" ELSE "sync_file"
        IN  /\ (r.out = "Conflict" \/ (newer /\ t = clock))
            /\ src' = r.src /\ mir' = r.mir /\ ext' = r.ext /\ base' = r.base /\ conf' = r.conf
            /\ userMirror' = StillUserMirror(r.mir)
            /\ clock' = IF r.out = "Conflict" THEN t ELSE clock
            /\ manifest' = r.man
            /\ mirDirs' = IF deleted THEN DirsAfterDelete(k, r)
                          ELSE IF dir THEN DirsAfterRemoveDir(RelOf(RepoName, k), r)
                          ELSE IF synced THEN DirsAfterSync(k, r)
                          ELSE mirDirs
            /\ srcSave' = (srcSave \/ r.out \in {"true", "Copied", "Merged"})
            /\ srcPending' = Enqueue(srcPending, k, r.sev)
            /\ mirPending' = [j \in Universe |-> IF j \in unlinked THEN "Deleted"
                                                 ELSE Enqueue(mirPending, k, r.mev)[j]]
            /\ last' = Step("src", op, k, r.out, r.branch)
    /\ UNCHANGED <<disk, mirBatch, mirSave, scanVars, edits, threadVars, cliVars, moved,
                   reloadVars, shutdownVars, inputVars, repoRoot, flushedKeys, lockVars, rehomeVars>>

\* scan_repo, the walk and what sync_file does to the mirror's directories.
ScanFileDirs(k) ==
    /\ scanPc = "walk" /\ k \in scanTodo
    /\ scanTodo' = scanTodo \ {k}
    /\ \E newer \in BOOLEAN, t \in clock..MaxStamp :
        LET walked == src[k].kind = "file" /\ ShouldMirror(k)
            r == IF walked THEN SyncFile(SourcePath(k), k, scanManifest, newer, t)
                 ELSE [Unchanged(scanManifest) EXCEPT !.out = "none", !.branch = "not_walked"]
        IN  /\ (r.out = "Conflict" \/ (newer /\ t = clock))
            /\ src' = r.src /\ mir' = r.mir /\ ext' = r.ext /\ base' = r.base /\ conf' = r.conf
            /\ userMirror' = StillUserMirror(r.mir)
            /\ clock' = IF r.out = "Conflict" THEN t ELSE clock
            /\ scanManifest' = r.man
            /\ mirDirs' = IF walked THEN DirsAfterSync(k, r) ELSE mirDirs
            /\ srcPending' = Enqueue(srcPending, k, r.sev)
            /\ mirPending' = Enqueue(mirPending, k, r.mev)
            /\ last' = Step("scan", IF walked THEN "sync_file" ELSE "walk", k, r.out, r.branch)
    /\ UNCHANGED <<manifest, disk, lock, srcBatch, srcSave, mirBatch, mirSave, scanPc,
                   edits, threadVars, cliVars, moved, reloadVars, shutdownVars, inputVars, repoRoot, flushedKeys, lockVars, rehomeVars>>

\* scan_repo, after the walk: prune_stale with its prune_empty_dirs, then
\* manifest.save.
ScanPruneDirs ==
    /\ scanPc = "walk" /\ scanTodo = {}
    /\ LET r == PruneStale(scanManifest)
       IN  /\ mir' = r.mir /\ base' = r.base
           /\ userMirror' = StillUserMirror(r.mir)
           /\ scanManifest' = r.man
           /\ disk' = r.man
           /\ mirDirs' = DirsAfterPrune(r)
           /\ mirPending' = [k \in Universe |-> IF k \in r.removed THEN "Deleted" ELSE mirPending[k]]
           /\ last' = Step("scan", "prune_stale", <<>>, IF r.pruned > 0 THEN "pruned" ELSE "none", "none")
    /\ scanPc' = "writeback"
    /\ UNCHANGED <<src, ext, conf, clock, manifest, lock, srcWatcherVars, mirBatch, mirSave,
                   scanTodo, edits, threadVars, cliVars, moved, reloadVars, shutdownVars,
                   inputVars, repoRoot, flushedKeys, lockVars, rehomeVars>>

NextPrune ==
    \/ \E rootEvent, each \in BOOLEAN : UserRemoveRoot(rootEvent, each)
    \/ \E each \in BOOLEAN : UserDeleteDir(DocsDir, each)
    \/ \E k \in PruneFiles : UserDeleteSource(k)
    \/ \E k \in PruneFiles, c \in Contents : Ancestors(k) \subseteq mirDirs /\ UserWriteMirror(k, c)
    \/ SrcDrain
    \/ \E k \in PruneKeys : SrcApplyDirs(k)
    \/ SrcFlushEnd
    \/ is_dir /\ ScanBegin
    \/ \E k \in PruneKeys : ScanFileDirs(k)
    \/ ScanPruneDirs
    \/ ScanEnd

SpecPrune == PruneInit /\ [][NextPrune]_vars

\* The step is a call of one of the three pruning functions.
Pruning == last'.op \in {"propagate_delete", "prune_stale", "remove_dir_mirrors"}

\* Every directory the step removed is empty after it.
RemovedWereEmpty ==
    \A d \in mirDirs \ mirDirs' : FilesUnder(d, mir') = {} /\ ~\E e \in mirDirs' : Under(e, d)

\* C33: propagate_delete, prune_stale and remove_dir_mirrors remove only
\* directories that are empty, and never the repo-name root directory
\* <output_dir>/<repo>.
C33_PruningPolicy ==
    [][Pruning => RemovedWereEmpty /\ (RepoName \in mirDirs => RepoName \in mirDirs')]_vars

\* C33 for every call but remove_dir_mirrors with the empty dir_rel_path:
\* only empty directories go, and the repo-name root stays.
C33_PruningPolicyBelowRoot ==
    [][(Pruning /\ ~(last'.op = "remove_dir_mirrors" /\ last'.key = RootKey))
        => RemovedWereEmpty /\ (RepoName \in mirDirs => RepoName \in mirDirs')]_vars


\* ------------------------------------------ a flush during a scan's write-back
\* flush_source_events, one event of the batch, noting the keys whose
\* Manifest entry this flush has inserted, replaced or removed.
SrcApplyNoted(k) ==
    /\ srcBatch[k] # "none"
    /\ lock \in {"none", "src"}
    /\ lock' = "src"
    /\ srcBatch' = [srcBatch EXCEPT ![k] = "none"]
    /\ \E newer \in BOOLEAN, t \in clock..MaxStamp :
        LET r == IF srcBatch[k] = "Deleted" THEN PropagateDelete(k, manifest)
                 ELSE IF ShouldMirror(k) THEN SyncFile(SourcePath(k), k, manifest, newer, t)
                 ELSE Unchanged(manifest)
            op == IF srcBatch[k] = "Deleted" THEN "propagate_delete" ELSE "sync_file"
        IN  /\ (r.out = "Conflict" \/ (newer /\ t = clock))
            /\ src' = r.src /\ mir' = r.mir /\ ext' = r.ext /\ base' = r.base /\ conf' = r.conf
            /\ userMirror' = StillUserMirror(r.mir)
            /\ clock' = IF r.out = "Conflict" THEN t ELSE clock
            /\ manifest' = r.man
            /\ flushedKeys' = (IF lock = "none" THEN {} ELSE flushedKeys)
                                \cup {j \in Universe : r.man[j] # manifest[j]}
            /\ srcSave' = (srcSave \/ r.out \in {"true", "Copied", "Merged"})
            /\ srcPending' = Enqueue(srcPending, k, r.sev)
            /\ mirPending' = Enqueue(mirPending, k, r.mev)
            /\ last' = Step("src", op, k, r.out, r.branch)
    /\ UNCHANGED <<disk, mirBatch, mirSave, scanVars, edits, threadVars, cliVars, moved,
                   reloadVars, shutdownVars, inputVars, repoRoot, mirDirs, lockVars, rehomeVars>>

\* The RepoWatcher's flushes that run while the periodic rescan is between
\* its prune and its write-back; the user edits at any time.
NextOverlap ==
    \/ \E k \in TreeKeys, c \in Contents : UserWriteSource(k, c)
    \/ \E k \in TreeKeys : UserDeleteSource(k)
    \/ scanPc = "writeback" /\ SrcDrain
    \/ \E k \in TreeKeys : SrcApplyNoted(k)
    \/ SrcFlushEnd
    \/ ScanBegin
    \/ \E k \in TreeKeys : ScanFile(k)
    \/ ScanPrune
    \/ ScanEnd

SpecOverlap == FaultInit /\ [][NextOverlap]_vars

\* A source flush has just ended, and it ran from its first linker call to
\* its end while the rescan was waiting to write its clones back.
FlushedDuringScan == last.actor = "src" /\ last.op = "flush_end" /\ scanPc = "writeback"

\* C34: the write-back of a full scan leaves every Manifest entry that a
\* flush inserted, replaced or removed during the scan as the flush left it.
C34_NoLostUpdate ==
    [][(FlushedDuringScan /\ last'.op = "writeback")
        => \A k \in flushedKeys : manifest'[k] = manifest[k]]_vars


\* ------------------------------------------- claims on deletion propagation
\* The step is a flush's propagate_delete that removed the mirror file of
\* its key, or a flush's propagate_mirror_delete that removed the source file.
MirrorDeletedByFlush ==
    /\ last'.actor = "src" /\ last'.op = "propagate_delete"
    /\ mir[last'.key].kind = "file" /\ mir'[last'.key].kind = "absent"
SourceDeletedByFlush ==
    /\ last'.actor = "mir" /\ last'.op = "propagate_mirror_delete"
    /\ src[last'.key].kind = "file" /\ src'[last'.key].kind = "absent"

\* C35: a flush deletes the mirror file of a key only if the key's source
\* file does not exist at the time of the flush, and deletes the source file
\* only if the mirror file does not exist at that time.
C35_DeleteOnlyFromGoneSide ==
    [][/\ MirrorDeletedByFlush => src[last'.key].kind # "file"
       /\ SourceDeletedByFlush => mir[last'.key].kind # "file"]_vars


\* The Manifest a deletion step works on: the scan's clone for prune_stale,
\* the shared Manifest for a flush.
ManifestOf(step) == IF step.actor = "scan" THEN scanManifest ELSE manifest

\* File f, at key k, holds what the Manifest recorded at the last sync.
AsSynced(f, k, man) == man[k].present /\ Hash(f.text) = man[k].hash

\* Text c is still the text of some source, mirror or conflict file after the step.
KeptSomewhere(c) ==
    \/ \E k \in Universe : src'[k] = Regular(c) \/ mir'[k] = Regular(c)
    \/ \E side \in {"source", "mirror"}, k \in Universe, t \in Stamps : conf'[side][k][t] = Regular(c)

\* The step is one of the deletion-propagating calls.
DeletionStep ==
    last'.op \in {"propagate_delete", "propagate_mirror_delete", "prune_stale", "remove_dir_mirrors"}

\* C36: a deletion-propagating call removes a source or mirror file only if
\* its content hash equals the Manifest hash of its key, or its content is
\* kept in some other file.
C36_NoUnsyncedEditDestroyed ==
    [][DeletionStep =>
        \A k \in Universe :
            /\ (mir[k].kind = "file" /\ mir'[k].kind = "absent")
                => (AsSynced(mir[k], k, ManifestOf(last')) \/ KeptSomewhere(mir[k].text))
            /\ (src[k].kind = "file" /\ src'[k].kind = "absent")
                => (AsSynced(src[k], k, ManifestOf(last')) \/ KeptSomewhere(src[k].text))]_vars


\* ------------------------------------------------- one edit and its echoes
\* The user does one thing to one side of a synced repo; both watchers flush
\* whatever reaches their pending maps. The periodic rescan runs when
\* nothing is pending or being applied, and no flush starts during it.
UserActsOnce ==
    /\ edits = 0 /\ scanPc = "idle"
    /\ \/ \E k \in TreeKeys, c \in Contents : UserWriteSource(k, c)
       \/ \E k \in TreeKeys : UserDeleteSource(k)
       \/ \E k \in TreeKeys, c \in Contents : UserWriteMirror(k, c)
       \/ \E k \in TreeKeys : UserDeleteMirror(k)
SrcDrainIdle == scanPc = "idle" /\ SrcDrain
MirDrainIdle == scanPc = "idle" /\ MirDrain
ScanBeginQuiet == Quiescent /\ ScanBegin

NextEcho ==
    \/ UserActsOnce
    \/ SrcDrainIdle
    \/ \E k \in TreeKeys : SrcApply(k)
    \/ SrcFlushEnd
    \/ MirDrainIdle
    \/ \E k \in TreeKeys : MirApply(k)
    \/ MirFlushEnd
    \/ ScanBeginQuiet
    \/ \E k \in TreeKeys : ScanFile(k)
    \/ ScanPrune
    \/ ScanEnd

\* Each coalescing thread wakes every poll period, and a flush and a scan
\* run to their end.
EchoFairness ==
    /\ WF_vars(SrcDrainIdle) /\ WF_vars(\E k \in TreeKeys : SrcApply(k)) /\ WF_vars(SrcFlushEnd)
    /\ WF_vars(MirDrainIdle) /\ WF_vars(\E k \in TreeKeys : MirApply(k)) /\ WF_vars(MirFlushEnd)
    /\ WF_vars(\E k \in TreeKeys : ScanFile(k)) /\ WF_vars(ScanPrune) /\ WF_vars(ScanEnd)

SpecEcho == FaultInit /\ [][NextEcho]_vars /\ EchoFairness

\* The step applies an event for a key whose two sides already agree: an
\* event raised by the core's own write or deletion.
EchoApplied ==
    /\ last'.actor \in {"src", "mir"}
    /\ last'.op \in {"sync_file", "propagate_delete", "propagate_mirror_delete", "ignore"}
    /\ src[last'.key] = mir[last'.key]

lockRest == <<fsVars, manifest, disk, lock, srcWatcherVars, mirWatcherVars, scanVars, edits,
              threadVars, cliVars, moved, reloadVars, shutdownVars, inputVars, repoRoot, mirDirs,
              flushedKeys, rehomeVars>>

Callback(w) == IF w = "src" THEN "srcCallback" ELSE "mirCallback"
PendingMutex(w) == IF w = "src" THEN "srcPending" ELSE "mirPending"
OtherManifest(m) == IF m = "manifest1" THEN "manifest2" ELSE "manifest1"

\* A flush that keeps the pending-events guard after the drain.
HeldAfterDrainKept(p) == {p}

\* flush_*_events: `let batch = { let mut p = pending.lock().unwrap(); ... };`
\* the guard is dropped at the end of the block, before manifest.lock().
HeldAfterDrain(p) == {}

\* handle_raw_*_event: pending.lock().unwrap()
CallbackLock(w) ==
    /\ pc[Callback(w)].at = "loop" /\ mutex[PendingMutex(w)] = "none"
    /\ mutex' = [mutex EXCEPT ![PendingMutex(w)] = Callback(w)]
    /\ pc' = [pc EXCEPT ![Callback(w)].at = "insert"]
    /\ last' = Step(Callback(w), "lock", <<>>, "none", "none")
    /\ UNCHANGED lockRest

\* handle_raw_*_event: the events are inserted, the guard is dropped on return.
CallbackInsert(w) ==
    /\ pc[Callback(w)].at = "insert"
    /\ mutex' = [mutex EXCEPT ![PendingMutex(w)] = "none"]
    /\ pc' = [pc EXCEPT ![Callback(w)].at = "loop", ![w].pending = TRUE]
    /\ last' = Step(Callback(w), "insert", <<>>, "none", "none")
    /\ UNCHANGED lockRest

\* The coalescing thread's loop: stop set, it makes its final flush call;
\* else it looks into the pending map (lock, read, unlock) and, the
\* debounce window over, calls the flush.
ThreadCheck(w) ==
    /\ pc[w].at = "loop"
    /\ pc[w].stop \/ (mutex[PendingMutex(w)] = "none" /\ pc[w].pending)
    /\ pc' = [pc EXCEPT ![w].at = "drain", ![w].final = pc[w].stop]
    /\ last' = Step(w, "check", <<>>, IF pc[w].stop THEN "final" ELSE "debounced", "none")
    /\ UNCHANGED <<mutex, lockRest>>

\* flush_*_events: the batch is taken under the pending mutex; an empty
\* batch returns.
FlushDrain(w) ==
    /\ pc[w].at = "drain" /\ mutex[PendingMutex(w)] = "none"
    /\ LET p == PendingMutex(w)
           empty == ~pc[w].pending
       IN  /\ mutex' = [mutex EXCEPT ![p] = IF p \in HeldAfterDrain(p) /\ ~empty THEN w ELSE "none"]
           /\ pc' = [pc EXCEPT ![w].batch = pc[w].pending, ![w].pending = FALSE,
                               ![w].at = IF ~empty THEN "lock"
                                         ELSE IF pc[w].final THEN "exited" ELSE "loop"]
    /\ last' = Step(w, "drain", <<>>, "none", "none")
    /\ UNCHANGED lockRest

\* flush_*_events: manifest.lock().unwrap()
FlushLock(w) ==
    /\ pc[w].at = "lock" /\ mutex[pc[w].manifest] = "none"
    /\ mutex' = [mutex EXCEPT ![pc[w].manifest] = w]
    /\ pc' = [pc EXCEPT ![w].at = "apply"]
    /\ last' = Step(w, "lock", <<>>, "none", "none")
    /\ UNCHANGED lockRest

\* flush_*_events: the batch is applied and the Manifest saved; every
\* guard is dropped on return.
FlushApply(w) ==
    /\ pc[w].at = "apply"
    /\ mutex' = [m \in Mutexes |-> IF mutex[m] = w THEN "none" ELSE mutex[m]]
    /\ pc' = [pc EXCEPT ![w].batch = FALSE, ![w].at = IF pc[w].final THEN "exited" ELSE "loop"]
    /\ last' = Step(w, "apply", <<>>, "none", "none")
    /\ UNCHANGED lockRest

\* The engine's thread goes from one place to the next.
EngineGoes(from, to, op) ==
    /\ pc["engine"].at = from
    /\ pc' = [pc EXCEPT !["engine"].at = to]
    /\ last' = Step("engine", op, <<>>, "none", "none")
    /\ UNCHANGED lockRest

\* main_loop, periodic rescan: each Manifest is locked for its clone, and
\* again, after full_scan, for the write-back; one at a time.
RescanLocks ==
    \/ EngineGoes("loop", "clone1", "rescan") /\ UNCHANGED mutex
    \/ mutex["manifest1"] = "none" /\ EngineGoes("clone1", "clone2", "clone") /\ UNCHANGED mutex
    \/ mutex["manifest2"] = "none" /\ EngineGoes("clone2", "write1", "clone") /\ UNCHANGED mutex
    \/ mutex["manifest1"] = "none" /\ EngineGoes("write1", "write2", "writeback") /\ UNCHANGED mutex
    \/ mutex["manifest2"] = "none" /\ EngineGoes("write2", "loop", "writeback") /\ UNCHANGED mutex

\* cancel(): the stop flag is set, then the thread is joined.
CancelSets(w, from, to) ==
    /\ pc["engine"].at = from
    /\ pc' = [pc EXCEPT !["engine"].at = to, ![w].stop = TRUE]
    /\ last' = Step("engine", "cancel", <<>>, "none", w)
    /\ UNCHANGED <<mutex, lockRest>>
CancelJoins(w, from, to) ==
    /\ pc[w].at = "exited"
    /\ EngineGoes(from, to, "joined")
    /\ UNCHANGED mutex

\* The engine locks Manifest m (to), and drops the guard at the end of the block.
EngineLocks(m, from, to) ==
    /\ mutex[m] = "none"
    /\ EngineGoes(from, to, "lock")
    /\ mutex' = [mutex EXCEPT ![m] = "engine"]
EngineUnlocks(m, from, to) ==
    /\ EngineGoes(from, to, "unlock")
    /\ mutex' = [mutex EXCEPT ![m] = "none"]

\* create_watcher / create_mirror_watcher: a new coalescing thread, with the
\* Manifest of its output_dir.
StartsWatcher(w, m, from, to) ==
    /\ pc["engine"].at = from
    /\ pc' = [pc EXCEPT !["engine"].at = to, ![w] = [AtLoop EXCEPT !.manifest = m]]
    /\ last' = Step("engine", "start_watcher", <<>>, "none", w)
    /\ UNCHANGED <<mutex, lockRest>>

\* reload_config, a repo whose output_dir changed: stop_repo_watcher; the
\* old Manifest is locked for remove_repo_mirror; the new one for scan_repo;
\* start_repo_watcher; the stale MirrorWatcher is cancelled and one for the
\* new output_dir started.
ReloadLocks ==
    LET old == pc["src"].manifest
        new == OtherManifest(old)
    IN  \/ CancelSets("src", "loop", "reload_join")
        \/ CancelJoins("src", "reload_join", "reload_old")
        \/ EngineLocks(old, "reload_old", "remove_repo_mirror")
        \/ EngineUnlocks(old, "remove_repo_mirror", "reload_new")
        \/ EngineLocks(new, "reload_new", "scan_repo")
        \/ EngineUnlocks(new, "scan_repo", "reload_start")
        \/ StartsWatcher("src", OtherManifest(pc["mir"].manifest), "reload_start", "reload_mirror")
        \/ CancelSets("mir", "reload_mirror", "reload_join_mirror")
        \/ CancelJoins("mir", "reload_join_mirror", "reload_start_mirror")
        \/ StartsWatcher("mir", OtherManifest(pc["mir"].manifest), "reload_start_mirror", "loop")

\* stop(): every RepoWatcher is cancelled, then every MirrorWatcher.
StopLocks ==
    \/ CancelSets("src", "loop", "stop_join")
    \/ CancelJoins("src", "stop_join", "stop_mirror")
    \/ CancelSets("mir", "stop_mirror", "stop_join_mirror")
    \/ CancelJoins("mir", "stop_join_mirror", "returned")

NextLocks ==
    \/ \E w \in {"src", "mir"} : CallbackLock(w)
    \/ \E w \in {"src", "mir"} : CallbackInsert(w)
    \/ \E w \in {"src", "mir"} : ThreadCheck(w)
    \/ \E w \in {"src", "mir"} : FlushDrain(w)
    \/ \E w \in {"src", "mir"} : FlushLock(w)
    \/ \E w \in {"src", "mir"} : FlushApply(w)
    \/ RescanLocks
    \/ ReloadLocks
    \/ StopLocks

\* Every thread is scheduled; a mutex that is released again and again is
\* obtained; the engine may stay in its loop.
EngineWorks == pc["engine"].at # "loop" /\ (RescanLocks \/ ReloadLocks \/ StopLocks)
LockFairness ==
    /\ \A w \in {"src", "mir"} :
        /\ WF_vars(CallbackInsert(w)) /\ SF_vars(ThreadCheck(w)) /\ SF_vars(FlushDrain(w))
        /\ SF_vars(FlushLock(w)) /\ WF_vars(FlushApply(w))
    /\ SF_vars(EngineWorks)

\* The engine has started on a synced repo.
LockInit == Started(Keys, Keys)

SpecLocks == LockInit /\ [][NextLocks]_vars /\ LockFairness

\* Thread t is about to take, or holds, a Manifest mutex.
AtManifest(t) == pc[t].at = "lock" \/ \E m \in ManifestMutexes : mutex[m] = t
Joining == pc["engine"].at \in {"reload_join", "reload_join_mirror", "stop_join", "stop_join_mirror"}

\* C39: no thread acquires a Manifest mutex while holding a pending-events
\* mutex; the engine holds no Manifest mutex while it joins a coalescing
\* thread; no thread holds two Manifest mutexes at once; and every cancel,
\* reload and shutdown the engine begins comes to its end.
C39_DeadlockFree ==
    /\ [](\A t \in Threads : (\E p \in PendingMutexes : mutex[p] = t) => ~AtManifest(t))
    /\ [](Joining => \A m \in ManifestMutexes : mutex[m] # "engine")
    /\ [](\A t \in Threads : Cardinality({m \in ManifestMutexes : mutex[m] = t}) <= 1)
    /\ [](pc["engine"].at # "loop" => <>(pc["engine"].at \in {"loop", "returned"}))

\* The engine is joining a coalescing thread whose final flush holds the
\* Manifest mutex, while the callback holds the pending-events mutex.
C39_Witness ==
    /\ Joining
    /\ \E w \in {"src", "mir"} :
        /\ pc[w].final /\ pc[w].at = "apply" /\ mutex[pc[w].manifest] = w
        /\ mutex[PendingMutex(w)] = Callback(w)

\* ------------------------------------------- reload beside the repo watchers
\* reload_config runs on the engine's thread while every RepoWatcher's
\* coalescing thread runs on its own: a watcher flushes between any two
\* statements of the reload until stop_repo_watcher has joined it. The
\* reload is taken in two steps here, cut after the simple global move
\* (engine.rs 184-229), where the repo diff begins.

rehomeRest == <<src, mir, ext, base, conf, clock, manifest, disk, lock, srcPending, srcBatch,
                srcSave, mirPending, mirBatch, mirSave, scanPc, scanManifest, scanTodo, userMirror,
                threadVars, cliVars, moved, shutdownVars, inputVars, repoRoot, mirDirs,
                flushedKeys, lockVars, changed, notified>>

\* The user writes the repo's file; the running RepoWatcher's callback
\* records Modified for it.
UserWriteRepoFile(r) ==
    /\ edits < MaxEdits
    /\ edits' = edits + 1
    /\ watchers[r].running /\ r \notin repoPending
    /\ repoPending' = repoPending \cup {r}
    /\ last' = Step("user", "write", KeyOf(r, RepoFile), "none", "none")
    /\ UNCHANGED <<rehomeRest, reloadVars, reloading>>

\* flush_source_events of repo r's watcher with Modified pending for the
\* repo's file: sync_file copies the source to the mirror path under the
\* output_dir the watcher was created with (create_dir_all makes the
\* directories), writes the base, inserts the entry into the Manifest the
\* watcher's Arc points to, and that Manifest is saved under the output_dir.
\* x.e is the engine and disk, x.om the Manifest the engine has dropped.
FlushSourceEvents(x, r) ==
    LET w == x.e.w[r]
        d == w.repo.output_dir
        k == KeyOf(r, RepoFile)
        entries == (IF w.shared THEN x.e.mf[d].entries ELSE x.om) \cup {k}
        written == [x.e EXCEPT !.out[d] = [files |-> x.e.out[d].files \cup {k},
                                           bases |-> x.e.out[d].bases \cup {k},
                                           saved |-> entries,
                                           corrupt |-> FALSE]]
    IN  IF w.shared THEN [e |-> [written EXCEPT !.mf[d].entries = entries], om |-> x.om]
        ELSE [e |-> written, om |-> entries]

\* The coalescing thread of repo r's watcher, debounce over.
RepoWatcherFlush(r) ==
    LET x == FlushSourceEvents([e |-> EngineNow, om |-> reloading.old_manifest], r)
    IN  /\ r \in repoPending /\ watchers[r].running
        /\ repoPending' = repoPending \ {r}
        /\ manifests' = x.e.mf /\ outputs' = x.e.out
        /\ reloading' = [reloading EXCEPT !.old_manifest = x.om]
        /\ last' = Step("watcher", "flush", KeyOf(r, RepoFile), "Copied",
                        watchers[r].repo.output_dir)
        /\ UNCHANGED <<rehomeRest, edits, config, configFile, watchers, mirror_watchers>>

\* RepoWatcher::cancel as stop_repo_watcher runs it: the thread flushes what
\* is pending once more before it ends.
FinalFlush(x, r, stops) ==
    IF stops /\ r \in repoPending /\ x.e.w[r].running THEN FlushSourceEvents(x, r) ELSE x

\* The repo diff stops the watcher of a repo that is removed, re-homed or
\* re-patterned; after a simple global move every watcher is stopped.
Stopping(r, old, new, simple) ==
    \/ simple
    \/ old[r].present /\ ~new[r].present
    \/ old[r].present /\ new[r].present
       /\ (old[r].output_dir # new[r].output_dir \/ PatternsChanged(old[r], new[r]))

\* reload_config from "Build repo name maps for diffing" to its end.
Diffed(e1, old, new, simple, registers) ==
    LET e2 == RemovedRepo(RemovedRepo(e1, RepoName, old, new), OtherRepo, old, new)
        e3 == NewlyActive(NewlyActive(e2, "/out/1", old, new), "/out/2", old, new)
        e4 == AddedRepo(AddedRepo(e3, RepoName, old, new, registers), OtherRepo, old, new, registers)
        e5 == ChangedRepo(ChangedRepo(e4, RepoName, old, new, registers), OtherRepo, old, new, registers)
        e6 == IF simple THEN AfterMove(e5, new, registers) ELSE e5
        unloaded == \E d \in ActiveOutputDirs(new) \ ActiveOutputDirs(old) : e2.out[d].corrupt
    IN  [e |-> Reconciled(e6, new, registers),
         out |-> IF unloaded THEN "failed" ELSE IF ~registers THEN "unregistered" ELSE "ok",
         branch |-> IF unloaded THEN "manifest_load" ELSE "none"]

\* reload_config of a simple global move, up to the diff: the mirror watcher
\* of the old dir is cancelled, the tree moved if it can be, the Manifest of
\* the new dir loaded and put in place of the old one. The repo watchers
\* keep running with the old output_dir and the old Manifest.
ReloadMoves(mv) ==
    LET old == TheDir(config)
        new == TheDir(configFile.repos)
        prepared == MovePrepared(EngineNow, old, new, mv)
        loaded == MoveLoaded(prepared, old, new)
        fails == prepared.out[new].corrupt
        e == IF fails THEN prepared ELSE loaded
    IN  /\ reloading.at = "loop"
        /\ configFile.valid /\ SimpleGlobalMove(config, configFile.repos)
        /\ (mv = "moved" => outputs[new] = EmptyDir)
        /\ watchers' = e.w /\ mirror_watchers' = e.mw /\ manifests' = e.mf /\ outputs' = e.out
        /\ reloading' = IF fails THEN reloading
                        ELSE [at |-> "diffing", old_dir |-> old,
                              old_manifest |-> manifests[old].entries,
                              new_config |-> configFile.repos]
        /\ last' = IF fails THEN Step("engine", "reload", <<>>, "failed", "manifest_load")
                   ELSE Step("engine", "move_output_dir", <<>>, mv, "none")
        /\ UNCHANGED <<rehomeRest, edits, config, configFile, repoPending>>

\* ... and from the diff on: every watcher is stopped (its last flush runs),
\* the repos are scanned into the new dir, the watchers restarted.
ReloadDiffs(registers) ==
    LET new == reloading.new_config
        x0 == [e |-> EngineNow, om |-> reloading.old_manifest]
        x1 == FinalFlush(FinalFlush(x0, RepoName, TRUE), OtherRepo, TRUE)
        r == Diffed(x1.e, config, new, TRUE, registers)
    IN  /\ reloading.at = "diffing"
        /\ watchers' = r.e.w /\ mirror_watchers' = r.e.mw
        /\ manifests' = r.e.mf /\ outputs' = r.e.out
        /\ config' = new
        /\ repoPending' = {}
        /\ reloading' = NotReloading
        /\ last' = Step("engine", "reload", <<>>, r.out, r.branch)
        /\ UNCHANGED <<rehomeRest, edits, configFile>>

\* reload_config of any other change of the config, or of a file that does
\* not load.
ReloadWhole(registers) ==
    LET new == configFile.repos
        stops == [r \in Repos |-> Stopping(r, config, new, FALSE)]
        x0 == [e |-> EngineNow, om |-> {}]
        x1 == FinalFlush(FinalFlush(x0, RepoName, stops[RepoName]), OtherRepo, stops[OtherRepo])
        r == IF configFile.valid THEN Diffed(x1.e, config, new, FALSE, registers)
             ELSE [e |-> EngineNow, out |-> "failed", branch |-> "load_config"]
    IN  /\ reloading.at = "loop"
        /\ ~(configFile.valid /\ SimpleGlobalMove(config, new))
        /\ watchers' = r.e.w /\ mirror_watchers' = r.e.mw
        /\ manifests' = r.e.mf /\ outputs' = r.e.out
        /\ config' = IF configFile.valid THEN new ELSE config
        /\ repoPending' = IF configFile.valid
                          THEN {p \in repoPending : ~stops[p] /\ watchers[p].running}
                          ELSE repoPending
        /\ last' = Step("engine", "reload", <<>>, r.out, r.branch)
        /\ UNCHANGED <<rehomeRest, edits, configFile, reloading>>

NextRehome ==
    \/ \E c \in Configs : UserEditConfig(ValidConfig(c))
    \/ UserEditConfig(InvalidConfig)
    \/ \E d \in OutputDirs : UserDamageManifest(d)
    \/ \E r \in Repos : UserWriteRepoFile(r)
    \/ \E r \in Repos : RepoWatcherFlush(r)
    \/ \E mv \in MoveResults : ReloadMoves(mv)
    \/ \E registers \in BOOLEAN : ReloadDiffs(registers)
    \/ \E registers \in BOOLEAN : ReloadWhole(registers)

SpecRehome == ReloadInit /\ [][NextRehome]_vars

\* The files, base cache and Manifest file under an output directory.
TreeOf(dir) == <<dir.files, dir.bases, dir.saved>>

\* The old output directory of the reload under way is left alone by the
\* step: nothing is created or written under it, and the Manifest object
\* that belonged to it is as it was.
OldDirLeftAlone ==
    reloading.at = "diffing" =>
        /\ TreeOf(outputs'[reloading.old_dir]) = TreeOf(outputs[reloading.old_dir])
        /\ (reloading'.at = "diffing" => reloading'.old_manifest = reloading.old_manifest)

\* No RepoWatcher bound to the old output directory runs once the old tree
\* is moved or its Manifest discarded.
OldWatchersStopped ==
    reloading.at = "diffing" =>
        \A r \in Repos : watchers[r].running => watchers[r].repo.output_dir # reloading.old_dir

\* C40: once a reload has moved the output tree to a new location or
\* re-homed its repos, no watcher flush or scan creates or writes a file
\* (mirror file, base cache, Manifest) under the old output directory or
\* changes the Manifest object that belonged to it, and every RepoWatcher
\* bound to the old output directory is stopped before the old tree is moved
\* or its Manifest discarded.
C40_NoWritesToAbandonedDir == [][OldDirLeftAlone]_vars /\ []OldWatchersStopped

\* The first half alone, and the second half alone.
C40_OldDirLeftAlone == [][OldDirLeftAlone]_vars
C40_OldWatchersStopped == []OldWatchersStopped
============================================================================
